---- MODULE Spec2Model ----
(***************************************************************************)
(* FEEN / HLV Dynamics Lab: run_simulation (python/plugins/hlv_dynamics.py) *)
(* as a state machine.                                                      *)
(*                                                                          *)
(* Units.  Phases, frequencies and amplitudes are integers on the lattice   *)
(* of quarter turns (one unit = math.pi / 2), where sin is exact.  Times    *)
(* (dt, t_end, event times, durations) are integers in quanta of 0.5e-8 s,  *)
(* so that round(x, 8) is a real rounding.  Observer outputs are            *)
(* fixed-point numbers in thousandths.                                      *)
(***************************************************************************)
EXTENDS Integers, Sequences, FiniteSets, TLC

\* ------------------------------------------------------------------ bounds
NumNodes == 2
MaxEvents == 2
MaxTEnd == 4
MaxSeed == 1
\* observer_o2 called directly: largest window and longest history
MaxWindow == 3
MaxHist == 5
\* run_kappa_sweep: largest kappa_max (in quanta of 0.5e-8) and num_seeds
MaxKappa == 4
MaxNumSeeds == 2
\* number of oscillators in the runs of a sweep
SweepNodes == 3
\* graph builders called directly: largest N and largest k // 2
MaxGraphN == 4
\* run_kappa_sweep, list loop taken step by step: the length of kappa_values
\* up to which the growth of the list is followed
MaxListLen == 6
MaxHalfDegree == 2

\* ------------------------------------------------------- program constants
\* math.pi on the phase lattice (two quarter turns).
pi == 2
\* 1e-8 s, the resolution of round(x, 8), in time quanta.
Res8 == 2
\* default window of observer_o2.
O2Window == 10
\* lock-in threshold 0.9 of the settling time, in thousandths.
LockIn == 900
\* fixed-point scale of the observer outputs.
Milli == 1000

VARIABLES
    cfg,              \* the configuration dict of the call
    rng,              \* np.random.Generator: [seed, pos]
    omega,            \* natural frequencies, node -> value
    omega_original,   \* omega.copy() taken at setup
    theta,            \* phases, node -> value
    memory,           \* P2 memory variable, node -> value
    omega_kick_ends,  \* dict node -> end_time
    metrics_rows,     \* list of rows
    events_log,       \* list of applied events
    history_R,        \* list of R samples
    pending_events,   \* inject events sorted by time
    event_idx,        \* cursor into pending_events (0-based)
    t,                \* start time of the current step
    n_steps,          \* int(round(t_end / dt))
    step,             \* loop variable of `for step in range(n_steps)`
    summary,          \* the summary dict, None until computed
    ref,              \* the same call with plugin = "P1", run in lockstep
    pc,               \* position in run_simulation
    sweep_cfg,        \* run_kappa_sweep: the sweep configuration
    kappa_values,     \* run_kappa_sweep: the list of kappa values
    kappa_idx,        \* run_kappa_sweep: position of `for kappa in kappa_values`
    sweep_s,          \* run_kappa_sweep: loop variable s of `for s in range(num_seeds)`
    sweep_k,          \* run_kappa_sweep: loop variable k of the loop that builds kappa_values
    seed_results,     \* run_kappa_sweep: summaries of the current kappa
    sweep_results,    \* run_kappa_sweep: aggregates so far
    sweep_pc,         \* position in run_kappa_sweep
    calls,            \* a caller's list of configurations to run, in order
    returned,         \* the results run_simulation has returned to the caller
    call,             \* a call of one of the module's other functions
    lock,             \* _lock: 0 when free, else the request handler holding it
    run_status,       \* _run_status
    latest_result,    \* _latest_result, None until a run is stored
    latest_sweep,     \* _latest_sweep, None until a sweep is stored
    handlers,         \* the request handlers in flight: endpoint, body, position
    finished          \* the handlers that have responded, in order

\* the locals of run_simulation
run_vars == <<cfg, rng, omega, omega_original, theta, memory, omega_kick_ends,
              metrics_rows, events_log, history_R, pending_events, event_idx,
              t, n_steps, step, summary, ref, pc>>

\* the locals of run_kappa_sweep
sweep_vars == <<sweep_cfg, kappa_values, kappa_idx, sweep_s, sweep_k, seed_results, sweep_results,
                sweep_pc>>

\* the module-level state of the plugin's endpoints and their handlers
plugin_vars == <<lock, run_status, latest_result, latest_sweep, handlers, finished>>

\* everything outside a call of run_simulation
outer == <<sweep_cfg, kappa_values, kappa_idx, sweep_s, sweep_k, seed_results, sweep_results,
           sweep_pc, calls, returned, call, plugin_vars>>

vars == <<cfg, rng, omega, omega_original, theta, memory, omega_kick_ends,
          metrics_rows, events_log, history_R, pending_events, event_idx,
          t, n_steps, step, summary, ref, pc,
          sweep_cfg, kappa_values, kappa_idx, sweep_s, sweep_k, seed_results, sweep_results,
          sweep_pc, calls, returned, call,
          lock, run_status, latest_result, latest_sweep, handlers, finished>>


\* ----------------------------------------------------------- arithmetic
Abs(x) == IF x < 0 THEN -x ELSE x

Max2(a, b) == IF a >= b THEN a ELSE b

\* Python's round() of the quotient a / b (b > 0): nearest integer, ties to
\* the even one.
RoundHalfEvenDiv(a, b) ==
    LET q == a \div b
        r == a % b
    IN  IF 2 * r < b THEN q
        ELSE IF 2 * r > b THEN q + 1
        ELSE IF q % 2 = 0 THEN q ELSE q + 1

\* round(x, 8) of a time x given in quanta.
Round8(x) == Res8 * RoundHalfEvenDiv(x, Res8)

\* floor(sqrt(x)) for 0 <= x < 2^30, by bisection on lo <= sqrt(x) < hi.
RECURSIVE ISqrtIn(_, _, _)
ISqrtIn(x, lo, hi) ==
    IF hi - lo <= 1 THEN lo
    ELSE LET mid == (lo + hi) \div 2
         IN  IF mid * mid <= x THEN ISqrtIn(x, mid, hi) ELSE ISqrtIn(x, lo, mid)

ISqrt(x) == ISqrtIn(x, 0, 32768)

RECURSIVE SumSeq(_)
SumSeq(s) == IF s = <<>> THEN 0 ELSE Head(s) + SumSeq(Tail(s))

\* sin on the lattice of quarter turns.
Sin(x) == CASE x % 4 = 0 -> 0
            [] x % 4 = 1 -> 1
            [] x % 4 = 2 -> 0
            [] x % 4 = 3 -> -1

Cos(x) == Sin(x + 1)

Nodes(N) == 0 .. (N - 1)

RECURSIVE SumOver(_, _)
\* sum of f[i] over the finite set S of indices.
SumOver(f, S) ==
    IF S = {} THEN 0
    ELSE LET i == CHOOSE j \in S : TRUE IN f[i] + SumOver(f, S \ {i})

\* ------------------------------------------------------------ graph layer
\* mutant of build_ring: only the forward edge is written.
build_ring_forward(N, weight) ==
    [i \in Nodes(N) |-> [j \in Nodes(N) |-> IF j = (i + 1) % N THEN weight ELSE 0]]

\* build_ring(N): A[i, (i+1) % N] = A[i, (i-1) % N] = weight.
build_ring(N, weight) ==
    [i \in Nodes(N) |-> [j \in Nodes(N) |->
        IF j = (i + 1) % N \/ j = (i - 1) % N THEN weight ELSE 0]]

\* mutant of build_phase_offsets_ring: the signs of the two directions are
\* exchanged.
build_phase_offsets_ring_reversed(N, phi0, mode) ==
    [i \in Nodes(N) |-> [j \in Nodes(N) |->
        IF mode = "chiral"
        THEN IF j = (i - 1) % N THEN phi0
             ELSE IF j = (i + 1) % N THEN -phi0 ELSE 0
        ELSE 0]]

\* rng.uniform(-phi0, phi0) of the generator default_rng(0), k-th draw
OffsetDraw(phi0, k) ==
    IF phi0 = 0 THEN 0
    ELSE ((((k + 1) * (k + 5) + k) % 13) % (2 * Abs(phi0))) - Abs(phi0)

\* build_phase_offsets_ring(N, phi0, mode): in mode 'chiral' the backward
\* edge is assigned after the forward edge, so it wins where both name the
\* same entry; in mode 'random' the off-diagonal entries are drawn in row
\* order; any other mode leaves zeros.
build_phase_offsets_ring(N, phi0, mode) ==
    [i \in Nodes(N) |-> [j \in Nodes(N) |->
        IF mode = "chiral"
        THEN IF j = (i - 1) % N THEN -phi0
             ELSE IF j = (i + 1) % N THEN phi0 ELSE 0
        ELSE IF mode = "random"
        THEN IF i # j
             THEN OffsetDraw(phi0, i * (N - 1) + (IF j < i THEN j ELSE j - 1))
             ELSE 0
        ELSE 0]]

\* ------------------------------------------------------------------- RNG
\* np.random.default_rng(seed): a deterministic stream; Raw is the pos-th
\* raw draw of the stream seeded with seed.
\* mutant of default_rng: one module-level generator is shared by all runs.
default_rng_shared(seed) == rng

default_rng(seed) == [seed |-> seed, pos |-> 0]

Raw(seed, pos) == ((seed + 1) * (pos + 1) * (pos + 5) + 3 * seed + pos) % 13

\* rng.standard_cauchy() * gamma on the lattice.
CauchyDraw(g, k) == (Raw(g.seed, g.pos + k) % 3) - 1

\* rng.uniform(-math.pi, math.pi): a value of [-pi, pi).
UniformDraw(g, k) == (Raw(g.seed, g.pos + k) % (2 * pi)) - pi

\* rng.standard_normal() on the lattice.
NormalDraw(g, k) == ((Raw(g.seed, g.pos + k) + g.seed) % 3) - 1

Advance(g, n) == [g EXCEPT !.pos = @ + n]

\* rng.standard_cauchy() in halves of a lattice unit, so that the scale 0.5
\* of the code keeps it on the lattice
standard_cauchy(g, k) == 2 * CauchyDraw(g, k)

\* the number of draws sample_frequencies takes from rng
SampleDraws(N, dist_cfg) == IF dist_cfg.type = "constant" THEN 0 ELSE N

\* mutant of sample_frequencies: the fallback branch draws with scale 1.0.
sample_frequencies_unit_fallback(N, dist_cfg, g) ==
    [i \in Nodes(N) |->
        IF dist_cfg.type = "lorentzian" THEN (standard_cauchy(g, i) * dist_cfg.gamma) \div 2
        ELSE IF dist_cfg.type = "gaussian"
        THEN dist_cfg.mean + (2 * NormalDraw(g, i) * dist_cfg.std) \div 2
        ELSE IF dist_cfg.type = "uniform"
        THEN IF dist_cfg.high > dist_cfg.low
             THEN dist_cfg.low + (Raw(g.seed, g.pos + i) % (dist_cfg.high - dist_cfg.low))
             ELSE dist_cfg.low
        ELSE IF dist_cfg.type = "constant" THEN 0
        ELSE standard_cauchy(g, i)]

\* sample_frequencies(N, dist_cfg, rng); gamma and std are held in halves
\* (1 is the 0.5 of the defaults), the fallback branch has the scale 0.5
\* written in it.
sample_frequencies(N, dist_cfg, g) ==
    [i \in Nodes(N) |->
        IF dist_cfg.type = "lorentzian" THEN (standard_cauchy(g, i) * dist_cfg.gamma) \div 2
        ELSE IF dist_cfg.type = "gaussian"
        THEN dist_cfg.mean + (2 * NormalDraw(g, i) * dist_cfg.std) \div 2
        ELSE IF dist_cfg.type = "uniform"
        THEN IF dist_cfg.high > dist_cfg.low
             THEN dist_cfg.low + (Raw(g.seed, g.pos + i) % (dist_cfg.high - dist_cfg.low))
             ELSE dist_cfg.low
        ELSE IF dist_cfg.type = "constant" THEN 0
        ELSE (standard_cauchy(g, i) * 1) \div 2]

\* cfg.get("freq_dist", {"type": "lorentzian", "gamma": 0.5})
DefaultFreqDist == [type |-> "lorentzian", gamma |-> 1]

\* ------------------------------------------------------- random topologies
\* the ring lattice of degree k: A[i, (i+d) % N] = A[(i+d) % N, i] = 1 for
\* every i and every d in 1 .. k // 2
Lattice(N, k) ==
    [a \in Nodes(N) |-> [b \in Nodes(N) |->
        IF \E d \in 1 .. (k \div 2) : b = (a + d) % N \/ a = (b + d) % N
        THEN 1 ELSE 0]]

\* the outcomes of 'rng.random() < beta' for a draw in [0, 1)
RewireOutcomes(beta) ==
    IF beta <= 0 THEN {FALSE} ELSE IF beta >= 2 THEN {TRUE} ELSE {TRUE, FALSE}

\* candidates = [m for m in range(N) if m != i and A[i, m] == 0]
Candidates(A, N, i) == {m \in Nodes(N) : m # i /\ A[i][m] = 0}

\* the four assignments of one rewiring, in the order of the code: the edge
\* to j_old is cleared, then the edge to j_new is set
Rewired(A, N, i, j_old, j_new) ==
    [a \in Nodes(N) |-> [b \in Nodes(N) |->
        IF (a = i /\ b = j_new) \/ (a = j_new /\ b = i) THEN 1
        ELSE IF (a = i /\ b = j_old) \/ (a = j_old /\ b = i) THEN 0
        ELSE A[a][b]]]

\* the k-th smallest element of a set of nodes (0-based), as rng.choice
\* indexes the list of candidates
RECURSIVE KthSmallest(_, _)
KthSmallest(S, k) ==
    LET m == CHOOSE x \in S : \A y \in S : x <= y
    IN  IF k = 0 THEN m ELSE KthSmallest(S \ {m}, k - 1)

\* the rewiring loops of build_small_world from the pass (i, d) on, with the
\* draws of the generator g; beta is held in halves and rng.random() is 0
\* or 0.5
RECURSIVE SmallWorldPasses(_, _, _, _, _, _, _)
SmallWorldPasses(A, N, k, beta, g, i, d) ==
    IF i >= N THEN A
    ELSE IF d > k \div 2 THEN SmallWorldPasses(A, N, k, beta, g, i + 1, 1)
    ELSE IF Raw(g.seed, g.pos) % 2 < beta
         THEN LET cand == Candidates(A, N, i)
              IN  IF cand # {}
                  THEN SmallWorldPasses(
                           Rewired(A, N, i, (i + d) % N,
                                   KthSmallest(cand, Raw(g.seed, g.pos + 1) % Cardinality(cand))),
                           N, k, beta, Advance(g, 2), i, d + 1)
                  ELSE SmallWorldPasses(A, N, k, beta, Advance(g, 1), i, d + 1)
         ELSE SmallWorldPasses(A, N, k, beta, Advance(g, 1), i, d + 1)

\* build_small_world(N, k, beta, rng) with the generator handed in
build_small_world(N, k, beta, g) == SmallWorldPasses(Lattice(N, k), N, k, beta, g, 0, 1)

\* build_erdos_renyi(N, p, rng): one draw per pair i < j, in row order; p is
\* held in halves
build_erdos_renyi(N, p, g) ==
    LET Pos(i, j) == (i * N - ((i * (i + 1)) \div 2)) + (j - i - 1)
        Edge(i, j) == Raw(g.seed, g.pos + Pos(i, j)) % 2 < p
    IN  [i \in Nodes(N) |-> [j \in Nodes(N) |->
            IF i < j THEN (IF Edge(i, j) THEN 1 ELSE 0)
            ELSE IF j < i THEN (IF Edge(j, i) THEN 1 ELSE 0)
            ELSE 0]]

\* (np.ones((N, N)) - np.eye(N)) / (N - 1): 1 / (N - 1) off the diagonal,
\* 0 on it; for N = 1 the division 0 / 0 gives nan
FullyConnected(N) ==
    [i \in Nodes(N) |-> [j \in Nodes(N) |->
        IF N = 1 THEN <<"nan">>
        ELSE IF i = j THEN 0
        ELSE IF N = 2 THEN 1 ELSE <<1, N - 1>>]]

Topologies == {"ring", "fully_connected", "small_world", "erdos_renyi"}

\* mutant of build_graph: an unrecognised topology is an error.
build_graph_strict(c) ==
    IF c.topology \in Topologies
    THEN [A   |-> IF c.topology = "ring" THEN build_ring(c.N, 1)
                  ELSE IF c.topology = "fully_connected" THEN FullyConnected(c.N)
                  ELSE IF c.topology = "small_world"
                  THEN build_small_world(c.N, c.sw_k, c.sw_beta, default_rng(c.topo_seed))
                  ELSE build_erdos_renyi(c.N, c.er_p, default_rng(c.topo_seed)),
          phi |-> build_phase_offsets_ring(c.N, c.phi0, c.offset_mode)]
    ELSE [error |-> "ValueError"]

\* build_graph(cfg) -> (A, phi)
build_graph(c) ==
    [A   |-> IF c.topology = "ring" THEN build_ring(c.N, 1)
             ELSE IF c.topology = "fully_connected" THEN FullyConnected(c.N)
             ELSE IF c.topology = "small_world"
             THEN build_small_world(c.N, c.sw_k, c.sw_beta, default_rng(c.topo_seed))
             ELSE IF c.topology = "erdos_renyi"
             THEN build_erdos_renyi(c.N, c.er_p, default_rng(c.topo_seed))
             ELSE build_ring(c.N, 1),
     phi |-> build_phase_offsets_ring(c.N, c.phi0, c.offset_mode)]

\* --------------------------------------------------------- physics plugins
\* sum_j A[i,j] * sin(theta[j] - theta[i] + phi[i,j])
Coupling(th, A, phi, N) ==
    [i \in Nodes(N) |->
        SumOver([j \in Nodes(N) |-> A[i][j] * Sin(th[j] - th[i] + phi[i][j])],
                Nodes(N))]

ZeroMatrix(N) == [i \in Nodes(N) |-> [j \in Nodes(N) |-> 0]]

Noise(sigma, g, N) ==
    [i \in Nodes(N) |-> IF sigma > 0 THEN sigma * NormalDraw(g, i) ELSE 0]

\* number of rng draws one physics evaluation makes.
NoiseDraws(sigma, N) == IF sigma > 0 THEN N ELSE 0

\* physics_p1: dtheta = omega + kappa * coupling (+ sigma * xi when sigma > 0)
physics_p1(th, om, A, phi, params, g, N) ==
    LET coupling == Coupling(th, A, ZeroMatrix(N), N)
        xi == Noise(params.sigma, g, N)
    IN  [i \in Nodes(N) |-> om[i] + params.kappa * coupling[i] + xi[i]]

\* physics_p2: (dtheta, dmemory)
physics_p2(th, om, mem, A, phi, params, g, N) ==
    LET sin_diff_sum == Coupling(th, A, ZeroMatrix(N), N)
        xi == Noise(params.sigma, g, N)
    IN  [dtheta  |-> [i \in Nodes(N) |->
                        om[i] + params.kappa * sin_diff_sum[i]
                              + params.eta * mem[i] + xi[i]],
         dmemory |-> [i \in Nodes(N) |->
                        (-mem[i]) \div params.tau_m + sin_diff_sum[i]]]

\* physics_p3: coupling through sin(diff + phi)
physics_p3(th, om, A, phi, params, g, N) ==
    LET coupling == Coupling(th, A, phi, N)
        xi == Noise(params.sigma, g, N)
    IN  [i \in Nodes(N) |-> om[i] + params.kappa * coupling[i] + xi[i]]

\* ---------------------------------------------------------------- observers
\* atan2(y, x) in thousandths of a quarter turn, in (-2000, 2000].
Atan2Milli(y, x) ==
    IF x = 0 /\ y = 0 THEN 0
    ELSE LET a == IF Abs(x) <= Abs(y) THEN Abs(x) ELSE Abs(y)
             b == Max2(Abs(x), Abs(y))
             base == (a * (500 * b + 174 * (b - a))) \div (b * b)
             ang == IF Abs(y) > Abs(x) THEN Milli - base ELSE base
         IN  IF y >= 0 THEN (IF x >= 0 THEN ang ELSE 2 * Milli - ang)
             ELSE (IF x >= 0 THEN -ang ELSE -(2 * Milli - ang))

\* ln(num / den) in thousandths, for num >= den >= 1.
RECURSIVE LnMilli(_, _)
LnMilli(num, den) ==
    IF num >= 2 * den THEN 693 + LnMilli(num, 2 * den)
    ELSE LET z  == (Milli * (num - den)) \div (num + den)
             z2 == (z * z) \div Milli
             z3 == (z * z2) \div Milli
             z5 == (z3 * z2) \div Milli
         IN  2 * (z + z3 \div 3 + z5 \div 5)

\* observer_o1(theta) -> {R, psi, sigma_theta}
observer_o1(th, N) ==
    LET sx == SumOver([i \in Nodes(N) |-> Cos(th[i])], Nodes(N))
        sy == SumOver([i \in Nodes(N) |-> Sin(th[i])], Nodes(N))
        R  == ISqrt(Milli * Milli * (sx * sx + sy * sy)) \div N
        \* -2 * log(max(R, 1e-12)), clamped at 0
        m2ln == IF R = 0 THEN 55262
                ELSE IF R >= Milli THEN 0 ELSE 2 * LnMilli(Milli, R)
    IN  [R |-> R, psi |-> Atan2Milli(sy, sx), sigma_theta |-> ISqrt(m2ln * Milli)]

\* mutant of observer_o2: the baseline window ends at the last sample.
observer_o2_IncludingLast(h, window) ==
    LET n == Len(h)
    IN  IF n < window + 1 THEN 0
        ELSE LET baseline == SumSeq(SubSeq(h, n - window + 1, n)) \div window
             IN  IF baseline < 1 THEN 0
                 ELSE (Abs(h[n] - baseline) * Milli) \div baseline

\* observer_o2(history_R, window)
observer_o2(h, window) ==
    LET n == Len(h)
    IN  IF n < window + 1 THEN 0
        ELSE LET baseline == SumSeq(SubSeq(h, n - window, n - 1)) \div window
             IN  IF baseline < 1 THEN 0
                 ELSE (Abs(h[n] - baseline) * Milli) \div baseline

\* ---------------------------------------------------------------- integrator
\* _rk4_step_p1: four noiseless evaluations of physics_p1.
rk4_step_p1(th, om, A, phi, params, dt, N) ==
    LET noiseless == [params EXCEPT !.sigma = 0]
        rng_dummy == default_rng(0)
        f(x) == physics_p1(x, om, A, phi, noiseless, rng_dummy, N)
        k1 == f(th)
        k2 == f([i \in Nodes(N) |-> th[i] + (dt * k1[i]) \div 2])
        k3 == f([i \in Nodes(N) |-> th[i] + (dt * k2[i]) \div 2])
        k4 == f([i \in Nodes(N) |-> th[i] + dt * k3[i]])
    IN  [i \in Nodes(N) |->
            th[i] + (dt * (k1[i] + 2 * k2[i] + 2 * k3[i] + k4[i])) \div 6]

\* mutant of WrapPhase: the phase is left unwrapped.
WrapPhaseNone(x) == x

\* theta = (theta + math.pi) % (2 * math.pi) - math.pi
\* On the lattice the remainder is exact and lies in 0 .. 2*pi - 1. In binary
\* floating point the remainder of a sum one rounding step below zero is
\* 2*pi itself, which wraps to +pi; the lattice has no such value, so the
\* model's phases never reach +pi although the program's can.
WrapPhase(x) == ((x + pi) % (2 * pi)) - pi

\* ------------------------------------------------------ perturbation events
AllNodes == [kind |-> "all"]

Node(i) == [kind |-> "index", index |-> i]

\* sorted(inject_events, key=time): a stable sort by trigger time.
RECURSIVE InsertByTime(_, _)
InsertByTime(s, e) ==
    IF s = <<>> THEN <<e>>
    ELSE IF Head(s).time <= e.time THEN <<Head(s)>> \o InsertByTime(Tail(s), e)
    ELSE <<e>> \o s

\* mutant of SortByTime: the queue keeps the order the caller gave.
SortByTimeUnsorted(s) == s

RECURSIVE SortByTime(_)
SortByTime(s) ==
    IF s = <<>> THEN <<>>
    ELSE InsertByTime(SortByTime(SubSeq(s, 1, Len(s) - 1)), s[Len(s)])

\* mutant of EventDue: the half-step tolerance is dropped.
EventDueNoTolerance(ev_t, now, dt) == ~(ev_t > now)

\* mutant of EventDue: an event exactly half a step ahead is not due.
EventDueBeforeHalfStep(ev_t, now, dt) == 2 * ev_t < 2 * now + dt

\* the loop test `if ev_t > t + dt * 0.5: break`, negated.
EventDue(ev_t, now, dt) == ~(2 * ev_t > 2 * now + dt)

\* mutant of NodesToKick: 'all' names the first node only.
NodesToKickFirstOfAll(node_spec, N) ==
    IF node_spec.kind = "all" THEN <<0>> ELSE <<node_spec.index>>

\* nodes_to_kick = list(range(N)) if node_spec == "all" else [int(node_spec)]
NodesToKick(node_spec, N) ==
    IF node_spec.kind = "all" THEN [k \in 1 .. N |-> k - 1] ELSE <<node_spec.index>>

Range(s) == {s[k] : k \in 1 .. Len(s)}

\* a Python index into an array of length N: negative indices count from
\* the end, anything outside -N .. N-1 raises IndexError.
IndexOk(ni, N) == -N <= ni /\ ni <= N - 1

PyIndex(ni, N) == IF ni < 0 THEN ni + N ELSE ni

\* mutant of KickPhases: every node is kicked, whatever the target.
KickPhasesEveryNode(th, kick, amp, N) == [i \in Nodes(N) |-> th[i] + amp]

\* for ni in nodes_to_kick: theta[ni] += amp
KickPhases(th, kick, amp, N) ==
    [i \in Nodes(N) |->
        th[i] + amp * Cardinality({k \in 1 .. Len(kick) : PyIndex(kick[k], N) = i})]

\* mutant of KickOmega: the amplitude is added to the current frequency.
KickOmegaCumulative(om, om0, kick, amp, N) ==
    [i \in Nodes(N) |->
        IF \E k \in 1 .. Len(kick) : PyIndex(kick[k], N) = i THEN om[i] + amp ELSE om[i]]

\* for ni in nodes_to_kick: omega[ni] = omega_original[ni] + amp
KickOmega(om, om0, kick, amp, N) ==
    [i \in Nodes(N) |->
        IF \E k \in 1 .. Len(kick) : PyIndex(kick[k], N) = i THEN om0[i] + amp ELSE om[i]]

\* mutant of KickEnds: the duration is forgotten.
KickEndsNoDuration(ends, kick, now, dur) ==
    [ni \in DOMAIN ends \cup Range(kick) |->
        IF ni \in Range(kick) THEN now ELSE ends[ni]]

\* mutant of KickEnds: a kick lasts one time quantum at least.
KickEndsAtLeastOne(ends, kick, now, dur) ==
    [ni \in DOMAIN ends \cup Range(kick) |->
        IF ni \in Range(kick) THEN now + Max2(dur, 1) ELSE ends[ni]]

\* for ni in nodes_to_kick: omega_kick_ends[ni] = t + dur
KickEnds(ends, kick, now, dur) ==
    [ni \in DOMAIN ends \cup Range(kick) |->
        IF ni \in Range(kick) THEN now + dur ELSE ends[ni]]

\* mutant of ExpiredNodes: a kick expires one step late (< for <=).
ExpiredNodesLate(ends, now) == {ni \in DOMAIN ends : ends[ni] < now}

\* the keys ni of omega_kick_ends with omega_kick_ends[ni] <= t
ExpiredNodes(ends, now) == {ni \in DOMAIN ends : ends[ni] <= now}

\* mutant of RestoreOmega: the record is dropped, the frequency is not restored.
RestoreOmegaSkipped(om, om0, expired, N) == om

\* omega[ni] = omega_original[ni] for every expired ni
RestoreOmega(om, om0, expired, N) ==
    [i \in Nodes(N) |->
        IF \E ni \in expired : PyIndex(ni, N) = i THEN om0[i] ELSE om[i]]

\* del omega_kick_ends[ni] for every expired ni
DropEnds(ends, expired) == [ni \in DOMAIN ends \ expired |-> ends[ni]]

EmptyEnds == [ni \in {} |-> 0]

\* ------------------------------------------------------------ one time step
Params(c) == [kappa |-> c.kappa, sigma |-> c.sigma, eta |-> c.eta, tau_m |-> c.tau_m]

\* mutant of Rk4Selected: the noise amplitude is not consulted.
Rk4SelectedAnySigma(integrator, sigma) == integrator = "rk4"

\* the test `integrator == "rk4" and params["sigma"] == 0.0`
Rk4Selected(integrator, sigma) == integrator = "rk4" /\ sigma = 0

\* theta + dt * dtheta
Euler(x, d, dt, N) == [i \in Nodes(N) |-> x[i] + dt * d[i]]

\* the physics step of the loop body: the new (theta, memory, rng).
PhysicsStep(plugin, integrator, th, mem, om, G, params, g, dt, N) ==
    IF plugin = "P1"
    THEN IF Rk4Selected(integrator, params.sigma)
         THEN [theta  |-> rk4_step_p1(th, om, G.A, G.phi, params, dt, N),
               memory |-> mem, rng |-> g]
         ELSE [theta  |-> Euler(th, physics_p1(th, om, G.A, G.phi, params, g, N), dt, N),
               memory |-> mem, rng |-> Advance(g, NoiseDraws(params.sigma, N))]
    ELSE IF plugin = "P2"
    THEN LET d == physics_p2(th, om, mem, G.A, G.phi, params, g, N)
         IN  [theta  |-> Euler(th, d.dtheta, dt, N),
              memory |-> Euler(mem, d.dmemory, dt, N),
              rng |-> Advance(g, NoiseDraws(params.sigma, N))]
    ELSE IF plugin = "P3"
    THEN [theta  |-> Euler(th, physics_p3(th, om, G.A, G.phi, params, g, N), dt, N),
          memory |-> mem, rng |-> Advance(g, NoiseDraws(params.sigma, N))]
    ELSE [theta  |-> Euler(th, physics_p1(th, om, G.A, G.phi, params, g, N), dt, N),
          memory |-> mem, rng |-> Advance(g, NoiseDraws(params.sigma, N))]

WrapAll(th, N) == [i \in Nodes(N) |-> WrapPhase(th[i])]

\* mutant of ObserveRow: O1 is evaluated whether enabled or not.
ObserveRowAlwaysO1(th, hist, observers, now, dt, N) ==
    LET o1 == observer_o1(th, N)
        h  == Append(hist, o1.R)
    IN  [row |-> [t |-> Round8(now + dt), R |-> o1.R, psi |-> o1.psi,
                  sigma_theta |-> o1.sigma_theta,
                  delta_phi |-> IF "O2" \in observers THEN observer_o2(h, O2Window) ELSE 0],
         history |-> h]

\* the observer block of the loop body: the row and the extended history.
ObserveRow(th, hist, observers, now, dt, N) ==
    LET o1 == IF "O1" \in observers THEN observer_o1(th, N)
              ELSE [R |-> 0, psi |-> 0, sigma_theta |-> 0]
        h  == Append(hist, o1.R)
    IN  [row |-> [t |-> Round8(now + dt), R |-> o1.R, psi |-> o1.psi,
                  sigma_theta |-> o1.sigma_theta,
                  delta_phi |-> IF "O2" \in observers THEN observer_o2(h, O2Window) ELSE 0],
         history |-> h]

\* mutant of NSteps: truncation instead of rounding.
NStepsTruncated(t_end, dt) == t_end \div dt

\* n_steps = int(round(t_end / dt)), for dt # 0; a negative dt gives a
\* quotient of the other sign, rounded the same way
NSteps(t_end, dt) ==
    IF dt > 0 THEN RoundHalfEvenDiv(t_end, dt) ELSE -RoundHalfEvenDiv(t_end, -dt)

\* ------------------------------------------------------------------ summary
RECURSIVE LastAbove(_, _)
\* mutant of FirstAbove: the scan does not stop at the first row found.
LastAbove(rows, threshold) ==
    IF rows = <<>> THEN <<>>
    ELSE IF rows[Len(rows)].R > threshold THEN <<rows[Len(rows)].t>>
    ELSE LastAbove(SubSeq(rows, 1, Len(rows) - 1), threshold)

RECURSIVE FirstAbove(_, _)
\* the time of the first row with R > threshold, as <<time>>; <<>> for None.
FirstAbove(rows, threshold) ==
    IF rows = <<>> THEN <<>>
    ELSE IF Head(rows).R > threshold THEN <<Head(rows).t>>
    ELSE FirstAbove(Tail(rows), threshold)

Summarize(rows, c, n) ==
    LET start   == (8 * Len(rows)) \div 10
        final_R == [k \in 1 .. (Len(rows) - start) |-> rows[start + k].R]
        len     == Len(final_R)
        mean_R  == IF len > 0 THEN SumSeq(final_R) \div len ELSE 0
        var     == SumSeq([k \in 1 .. len |-> (final_R[k] - mean_R) * (final_R[k] - mean_R)])
                       \div Max2(len, 1)
    IN  [mean_R_final  |-> mean_R,
         se_R_final    |-> IF len > 0 THEN <<ISqrt(var \div len)>> ELSE <<"nan">>,
         settling_time |-> FirstAbove(rows, LockIn),
         n_steps       |-> n,
         t_end_actual  |-> Round8(n * c.dt),
         N |-> c.N, plugin |-> c.plugin, kappa |-> c.kappa, seed |-> c.seed]

\* ------------------------------------------------------------ configurations
Plugins == {"P1", "P2", "P3", "PX"}

Integrators == {"euler", "rk4"}

DtValues == {1, 2, 3}

EventTimes == {0, 1, 3, 4}

PhaseKick(time, node, amp) ==
    [time |-> time, type |-> "phase_kick", node |-> node, amplitude |-> amp, duration |-> 1]

OmegaKick(time, node, amp, dur) ==
    [time |-> time, type |-> "omega_kick", node |-> node, amplitude |-> amp, duration |-> dur]

Events ==
    {PhaseKick(tm, Node(0), 1) : tm \in EventTimes}
    \cup {OmegaKick(tm, Node(0), 1, 4) : tm \in EventTimes}
    \cup {OmegaKick(tm, AllNodes, 2, 1) : tm \in EventTimes}
    \cup {OmegaKick(tm, AllNodes, 1, 4) : tm \in EventTimes}

EventLists == UNION {[1 .. n -> Events] : n \in 0 .. MaxEvents}

FewEventLists ==
    {<<>>, <<OmegaKick(3, AllNodes, 2, 1), PhaseKick(1, Node(0), 1)>>}

BaseCfg ==
    [plugin |-> "P1", N |-> NumNodes, dt |-> 2, t_end |-> MaxTEnd + 2,
     integrator |-> "euler", seed |-> 0, observers |-> {"O1"},
     kappa |-> 1, sigma |-> 0, eta |-> 1, tau_m |-> 1,
     phi0 |-> 1, offset_mode |-> "chiral", topology |-> "ring",
     inject_events |-> <<>>]

\* every plugin, integrator and noise setting, with and without events
PhysicsCfgs ==
    {[BaseCfg EXCEPT !.plugin = p, !.integrator = i, !.sigma = sg,
                     !.observers = {"O1", "O2"},
                     !.seed = sd, !.dt = d, !.t_end = te, !.inject_events = ev] :
        p \in Plugins, i \in Integrators, sg \in {0, 1},
        sd \in 0 .. MaxSeed, d \in DtValues, te \in 0 .. MaxTEnd, ev \in FewEventLists}

\* every set of enabled observers on every plugin
ObserverCfgs ==
    {[BaseCfg EXCEPT !.plugin = p, !.observers = ob,
                     !.seed = sd, !.dt = d, !.t_end = te] :
        p \in Plugins, ob \in SUBSET {"O1", "O2"},
        sd \in 0 .. MaxSeed, d \in DtValues, te \in 0 .. MaxTEnd}

\* every event list, in every order, on the default physics
ScheduleCfgs ==
    {[BaseCfg EXCEPT !.dt = d, !.inject_events = ev] :
        d \in {2, 3}, ev \in EventLists}

\* runs longer than the window of O2, with a phase kick late in the run
LongCfgs ==
    {[BaseCfg EXCEPT !.observers = ob, !.seed = sd, !.dt = 1, !.t_end = O2Window + 2,
                     !.inject_events = <<PhaseKick(O2Window, Node(0), 1)>>] :
        ob \in SUBSET {"O1", "O2"}, sd \in 0 .. MaxSeed}

\* a phase kick on one node or on all, while an omega kick is pending
KickCfgs ==
    {[BaseCfg EXCEPT !.plugin = p,
                     !.inject_events = <<OmegaKick(0, Node(0), 1, 4), PhaseKick(tm, nd, 1)>>] :
        p \in {"P1", "P2"}, tm \in {0, 2, 4}, nd \in {Node(0), Node(NumNodes - 1), AllNodes}}

Configs == PhysicsCfgs \cup ObserverCfgs \cup ScheduleCfgs \cup LongCfgs \cup KickCfgs

\* ---------------------------------------------------------------- the run
G == build_graph(cfg)

\* the locals of run_simulation at the head of the integration loop, for
\* configuration c
Fresh(c) ==
    LET g0 == default_rng(c.seed)
        om == sample_frequencies(c.N, DefaultFreqDist, g0)
        g1 == Advance(g0, SampleDraws(c.N, DefaultFreqDist))
        th == [i \in Nodes(c.N) |-> UniformDraw(g1, i)]
        g2 == Advance(g1, c.N)
        n  == IF c.dt = 0 THEN 0 ELSE NSteps(c.t_end, c.dt)
    IN  [cfg |-> c, rng |-> g2, omega |-> om, omega_original |-> om, theta |-> th,
         memory |-> [i \in Nodes(c.N) |-> 0],
         omega_kick_ends |-> EmptyEnds,
         metrics_rows |-> <<>>, events_log |-> <<>>, history_R |-> <<>>,
         pending_events |-> SortByTime(c.inject_events),
         event_idx |-> 0, t |-> 0, n_steps |-> n, step |-> 0,
         summary |-> [computed |-> FALSE],
         ref |-> [theta |-> th, memory |-> [i \in Nodes(c.N) |-> 0], rng |-> g2,
                  history_R |-> <<>>, metrics_rows |-> <<>>],
         \* a negative N makes rng.standard_cauchy(N) raise ValueError, and
         \* dt = 0 makes t_end / dt raise ZeroDivisionError; nothing else is
         \* checked before the loop
         pc |-> IF c.N < 0 \/ c.dt = 0 THEN "error"
                ELSE IF n > 0 THEN "events" ELSE "final"]

\* run_simulation(c) is entered and reaches the head of its loop
Setup(c) ==
    LET f == Fresh(c)
    IN  /\ cfg = f.cfg
        /\ rng = f.rng
        /\ omega = f.omega
        /\ omega_original = f.omega_original
        /\ theta = f.theta
        /\ memory = f.memory
        /\ omega_kick_ends = f.omega_kick_ends
        /\ metrics_rows = f.metrics_rows
        /\ events_log = f.events_log
        /\ history_R = f.history_R
        /\ pending_events = f.pending_events
        /\ event_idx = f.event_idx
        /\ t = f.t
        /\ n_steps = f.n_steps
        /\ step = f.step
        /\ summary = f.summary
        /\ ref = f.ref
        /\ pc = f.pc

\* the same, from a caller that is itself running
Enter(c) ==
    LET f == Fresh(c)
    IN  /\ cfg' = f.cfg
        /\ rng' = f.rng
        /\ omega' = f.omega
        /\ omega_original' = f.omega_original
        /\ theta' = f.theta
        /\ memory' = f.memory
        /\ omega_kick_ends' = f.omega_kick_ends
        /\ metrics_rows' = f.metrics_rows
        /\ events_log' = f.events_log
        /\ history_R' = f.history_R
        /\ pending_events' = f.pending_events
        /\ event_idx' = f.event_idx
        /\ t' = f.t
        /\ n_steps' = f.n_steps
        /\ step' = f.step
        /\ summary' = f.summary
        /\ ref' = f.ref
        /\ pc' = f.pc

\* no call of run_simulation has been made: its locals hold nothing the
\* program can read (the model parks them at the values of BaseCfg)
NoRun ==
    /\ rng = [seed |-> 0, pos |-> 0]
    /\ LET f == Fresh(BaseCfg)
       IN  /\ cfg = f.cfg
           /\ omega = f.omega
           /\ omega_original = f.omega_original
           /\ theta = f.theta
           /\ memory = f.memory
           /\ omega_kick_ends = f.omega_kick_ends
           /\ metrics_rows = f.metrics_rows
           /\ events_log = f.events_log
           /\ history_R = f.history_R
           /\ pending_events = f.pending_events
           /\ event_idx = f.event_idx
           /\ t = f.t
           /\ n_steps = f.n_steps
           /\ step = f.step
           /\ summary = f.summary
           /\ ref = f.ref
    /\ pc = "idle"

\* no sweep, no caller's list and no other call in progress
NoSweep ==
    /\ sweep_cfg = <<>>
    /\ kappa_values = <<>>
    /\ kappa_idx = 0
    /\ sweep_s = 0
    /\ sweep_k = 0
    /\ seed_results = <<>>
    /\ sweep_results = <<>>
    /\ sweep_pc = "none"

NoCalls == calls = <<>> /\ returned = <<>>

NoCall == call = [fn |-> "none"]

\* the module-level state at import, and no request in flight
NoRequests ==
    /\ lock = 0
    /\ run_status = [state |-> "idle", last_run_at |-> <<>>]
    /\ latest_result = <<>>
    /\ latest_sweep = <<>>
    /\ handlers = <<>>
    /\ finished = <<>>

Init == NoSweep /\ NoCalls /\ NoCall /\ NoRequests /\ \E c \in Configs : Setup(c)

\* one iteration of `while event_idx < len(pending_events)` that applies an event
ApplyEvent ==
    /\ pc = "events"
    /\ event_idx < Len(pending_events)
    /\ LET ev   == pending_events[event_idx + 1]
           kick == NodesToKick(ev.node, cfg.N)
       IN  /\ EventDue(ev.time, t, cfg.dt)
           /\ IF ev.type \in {"phase_kick", "omega_kick"}
                 /\ \E k \in 1 .. Len(kick) : ~IndexOk(kick[k], cfg.N)
              THEN \* IndexError on the first use of the index
                   /\ pc' = "error"
                   /\ UNCHANGED <<theta, omega, omega_kick_ends, events_log, event_idx, ref>>
              ELSE /\ pc' = pc
                   /\ event_idx' = event_idx + 1
                   /\ IF ev.type = "phase_kick"
                      THEN /\ theta' = KickPhases(theta, kick, ev.amplitude, cfg.N)
                           /\ ref' = [ref EXCEPT !.theta =
                                         KickPhases(@, kick, ev.amplitude, cfg.N)]
                           /\ events_log' = Append(events_log,
                                 [t |-> t, type |-> "phase_kick", nodes |-> kick,
                                  amplitude |-> ev.amplitude])
                           /\ UNCHANGED <<omega, omega_kick_ends>>
                      ELSE IF ev.type = "omega_kick"
                      THEN /\ omega' = KickOmega(omega, omega_original, kick,
                                                 ev.amplitude, cfg.N)
                           /\ omega_kick_ends' = KickEnds(omega_kick_ends, kick, t,
                                                          ev.duration)
                           /\ events_log' = Append(events_log,
                                 [t |-> t, type |-> "omega_kick", nodes |-> kick,
                                  amplitude |-> ev.amplitude, duration |-> ev.duration])
                           /\ UNCHANGED <<theta, ref>>
                      ELSE UNCHANGED <<theta, omega, omega_kick_ends, events_log, ref>>
    /\ UNCHANGED <<cfg, rng, omega_original, memory, metrics_rows, history_R,
                   pending_events, t, n_steps, step, summary>>
    /\ UNCHANGED outer

\* the event loop ends (queue empty or next event not due); expire omega kicks
ExpireKicks ==
    /\ pc = "events"
    /\ IF event_idx < Len(pending_events)
       THEN ~EventDue(pending_events[event_idx + 1].time, t, cfg.dt)
       ELSE TRUE
    /\ LET expired == ExpiredNodes(omega_kick_ends, t)
       IN  /\ omega' = RestoreOmega(omega, omega_original, expired, cfg.N)
           /\ omega_kick_ends' = DropEnds(omega_kick_ends, expired)
    /\ pc' = "physics"
    /\ UNCHANGED <<cfg, rng, omega_original, theta, memory, metrics_rows, events_log,
                   history_R, pending_events, event_idx, t, n_steps, step, summary, ref>>
    /\ UNCHANGED outer

\* the physics step
Physics ==
    /\ pc = "physics"
    /\ LET new == PhysicsStep(cfg.plugin, cfg.integrator, theta, memory, omega, G,
                              Params(cfg), rng, cfg.dt, cfg.N)
           one == PhysicsStep("P1", cfg.integrator, ref.theta, ref.memory, omega, G,
                              Params(cfg), ref.rng, cfg.dt, cfg.N)
       IN  /\ theta' = new.theta
           /\ memory' = new.memory
           /\ rng' = new.rng
           /\ ref' = [ref EXCEPT !.theta = one.theta, !.memory = one.memory,
                                 !.rng = one.rng]
    /\ pc' = "wrap"
    /\ UNCHANGED <<cfg, omega, omega_original, omega_kick_ends, metrics_rows, events_log,
                   history_R, pending_events, event_idx, t, n_steps, step, summary>>
    /\ UNCHANGED outer

\* wrap the phases
Wrap ==
    /\ pc = "wrap"
    /\ theta' = WrapAll(theta, cfg.N)
    /\ ref' = [ref EXCEPT !.theta = WrapAll(@, cfg.N)]
    /\ pc' = "observe"
    /\ UNCHANGED <<cfg, rng, omega, omega_original, memory, omega_kick_ends, metrics_rows,
                   events_log, history_R, pending_events, event_idx, t, n_steps, step,
                   summary>>
    /\ UNCHANGED outer

\* observers, row append, and the head of the next iteration
Observe ==
    /\ pc = "observe"
    /\ LET o == ObserveRow(theta, history_R, cfg.observers, t, cfg.dt, cfg.N)
           r == ObserveRow(ref.theta, ref.history_R, cfg.observers, t, cfg.dt, cfg.N)
       IN  /\ metrics_rows' = Append(metrics_rows, o.row)
           /\ history_R' = o.history
           /\ ref' = [ref EXCEPT !.metrics_rows = Append(@, r.row),
                                 !.history_R = r.history]
    /\ step' = step + 1
    /\ IF step + 1 < n_steps
       THEN t' = (step + 1) * cfg.dt /\ pc' = "events"
       ELSE t' = t /\ pc' = "final"
    /\ UNCHANGED <<cfg, rng, omega, omega_original, theta, memory, omega_kick_ends,
                   events_log, pending_events, event_idx, n_steps, summary>>
    /\ UNCHANGED outer

\* summary statistics and return
Finalize ==
    /\ pc = "final"
    /\ summary' = Summarize(metrics_rows, cfg, n_steps)
    /\ pc' = "done"
    /\ UNCHANGED <<cfg, rng, omega, omega_original, theta, memory, omega_kick_ends,
                   metrics_rows, events_log, history_R, pending_events, event_idx,
                   t, n_steps, step, ref>>
    /\ UNCHANGED outer

Next == ApplyEvent \/ ExpireKicks \/ Physics \/ Wrap \/ Observe \/ Finalize

Spec == Init /\ [][Next]_vars

\* ------------------------------------------- runs at the configuration edge
\* N and dt of either sign; O1 is left disabled, so that the runs with N = 0
\* carry no nan
MalformedCfgs ==
    {[BaseCfg EXCEPT !.N = n, !.dt = d, !.t_end = te, !.observers = ob] :
        n \in {-1, 0, NumNodes}, d \in -2 .. 2, te \in {0, 2, 4}, ob \in {{}, {"O2"}}}

\* one event of every type on a node index inside and outside 0 .. N-1,
\* alone or after an event on node 0
IndexEvents ==
    {[time |-> tm, type |-> tp, node |-> Node(i), amplitude |-> 1, duration |-> 4] :
        tm \in {0, 2}, tp \in {"phase_kick", "omega_kick", "noise"},
        i \in {-(NumNodes + 1), -1, 0, NumNodes}}

IndexCfgs ==
    {[BaseCfg EXCEPT !.t_end = 4, !.inject_events = pre \o <<ev>>] :
        pre \in {<<>>, <<PhaseKick(0, Node(0), 1)>>}, ev \in IndexEvents}

\* two events of every type, a type the loop does not know among them, on
\* one node or on all
TypeEvents ==
    {[time |-> tm, type |-> tp, node |-> nd, amplitude |-> 1, duration |-> 2] :
        tm \in {0, 3}, tp \in {"phase_kick", "omega_kick", "noise"},
        nd \in {Node(0), AllNodes}}

TypeCfgs ==
    {[BaseCfg EXCEPT !.t_end = 4, !.inject_events = <<e1, e2>>] :
        e1 \in TypeEvents, e2 \in TypeEvents}

\* an omega kick of duration zero or below, alone or while an earlier omega
\* kick is pending
ZeroDurationCfgs ==
    {[BaseCfg EXCEPT !.plugin = p, !.inject_events = pre \o <<OmegaKick(tm, nd, 2, dur)>>] :
        p \in {"P1", "P2"},
        pre \in {<<>>, <<OmegaKick(0, Node(0), 1, 4)>>, <<OmegaKick(0, AllNodes, 1, 2)>>},
        tm \in {0, 2, 4}, nd \in {Node(0), AllNodes}, dur \in -1 .. 0}

EdgeCfgs == MalformedCfgs \cup IndexCfgs \cup TypeCfgs \cup ZeroDurationCfgs

InitEdge == NoSweep /\ NoCalls /\ NoCall /\ NoRequests /\ \E c \in EdgeCfgs : Setup(c)

SpecEdge == InitEdge /\ [][Next]_vars

\* --------------------------------------------------- runs under fair steps
\* events before the start, inside the run, half a step past the start of
\* the last step, and at t_end, on runs of zero and of several steps
LiveEvents ==
    {PhaseKick(tm, Node(0), 1) : tm \in {-2, 0, 5, 6}}
    \cup {OmegaKick(tm, AllNodes, 1, 2) : tm \in {-2, 0, 5, 6}}

LiveCfgs ==
    {[BaseCfg EXCEPT !.dt = d, !.t_end = te, !.inject_events = ev] :
        d \in {2, 3}, te \in {0, 6},
        ev \in UNION {[1 .. n -> LiveEvents] : n \in 0 .. MaxEvents}}

InitLive == NoSweep /\ NoCalls /\ NoCall /\ NoRequests /\ \E c \in LiveCfgs : Setup(c)

\* the position of the run moves on: another event of the queue, or the
\* next statement of the loop body
Advances ==
    /\ pc \in {"events", "physics", "wrap", "observe", "final"}
    /\ pc' \in {"events", "physics", "wrap", "observe", "final", "done", "error"}
    /\ event_idx' \in 0 .. Len(pending_events)
    /\ step' \in 0 .. n_steps

\* the interpreter runs the loop to its end: a run that has not returned
\* keeps advancing
SpecLive == InitLive /\ [][Next]_vars /\ WF_<<pc, event_idx, step>>(Advances)

\* --------------------------------------------- run_simulation as a function
\* The same code as the actions above, composed into the value the call
\* returns (for configurations whose events name nodes of 0 .. N-1).
\* the `while event_idx < len(pending_events)` loop of one step
RECURSIVE ApplyDueEvents(_)
ApplyDueEvents(st) ==
    IF st.event_idx >= Len(st.pending_events) THEN st
    ELSE LET ev   == st.pending_events[st.event_idx + 1]
             kick == NodesToKick(ev.node, st.cfg.N)
         IN  IF ~EventDue(ev.time, st.t, st.cfg.dt) THEN st
             ELSE IF ev.type = "phase_kick"
             THEN ApplyDueEvents(
                    [st EXCEPT !.theta = KickPhases(@, kick, ev.amplitude, st.cfg.N),
                               !.events_log = Append(@,
                                   [t |-> st.t, type |-> "phase_kick", nodes |-> kick,
                                    amplitude |-> ev.amplitude]),
                               !.event_idx = @ + 1])
             ELSE IF ev.type = "omega_kick"
             THEN ApplyDueEvents(
                    [st EXCEPT !.omega = KickOmega(@, st.omega_original, kick,
                                                   ev.amplitude, st.cfg.N),
                               !.omega_kick_ends = KickEnds(@, kick, st.t, ev.duration),
                               !.events_log = Append(@,
                                   [t |-> st.t, type |-> "omega_kick", nodes |-> kick,
                                    amplitude |-> ev.amplitude, duration |-> ev.duration]),
                               !.event_idx = @ + 1])
             ELSE ApplyDueEvents([st EXCEPT !.event_idx = @ + 1])

\* one iteration of `for step in range(n_steps)`
LoopBody(st) ==
    LET c       == st.cfg
        a       == ApplyDueEvents(st)
        expired == ExpiredNodes(a.omega_kick_ends, a.t)
        om      == RestoreOmega(a.omega, a.omega_original, expired, c.N)
        new     == PhysicsStep(c.plugin, c.integrator, a.theta, a.memory, om,
                               build_graph(c), Params(c), a.rng, c.dt, c.N)
        th      == WrapAll(new.theta, c.N)
        o       == ObserveRow(th, a.history_R, c.observers, a.t, c.dt, c.N)
    IN  [a EXCEPT !.omega = om,
                  !.omega_kick_ends = DropEnds(@, expired),
                  !.theta = th, !.memory = new.memory, !.rng = new.rng,
                  !.metrics_rows = Append(@, o.row),
                  !.history_R = o.history,
                  !.step = @ + 1,
                  !.t = IF st.step + 1 < st.n_steps THEN (st.step + 1) * c.dt ELSE @]

RECURSIVE IntegrationLoop(_)
IntegrationLoop(st) ==
    IF st.step < st.n_steps THEN IntegrationLoop(LoopBody(st)) ELSE st

\* the dict run_simulation returns
RunResult(c, rows, log, sm) ==
    [config |-> c, metrics |-> rows, events |-> log, summary |-> sm]

run_simulation(c) ==
    LET f == IntegrationLoop(Fresh(c))
    IN  RunResult(c, f.metrics_rows, f.events_log,
                  Summarize(f.metrics_rows, c, f.n_steps))

\* the actions and the function are the same program: a finished run holds
\* what the function returns
RunIsFunction ==
    pc = "done" =>
        RunResult(cfg, metrics_rows, events_log, summary) = run_simulation(cfg)

\* ---------------------------------------------------------- run_kappa_sweep
\* kappa values are given in quanta of 0.5e-8, like times, so that
\* round(k, 8) is a real rounding.
\* mutant of KappaList: the half-step tolerance at kappa_max is dropped.
RECURSIVE KappaListNoTolerance(_, _, _)
KappaListNoTolerance(k, kappa_max, kappa_step) ==
    IF k <= kappa_max
    THEN <<Round8(k)>> \o KappaListNoTolerance(k + kappa_step, kappa_max, kappa_step)
    ELSE <<>>

\* k = kappa_min; while k <= kappa_max + kappa_step * 0.5:
\*     kappa_values.append(round(k, 8)); k += kappa_step
RECURSIVE KappaList(_, _, _)
KappaList(k, kappa_max, kappa_step) ==
    IF 2 * k <= 2 * kappa_max + kappa_step
    THEN <<Round8(k)>> \o KappaList(k + kappa_step, kappa_max, kappa_step)
    ELSE <<>>

\* mutant of SimCfg: every seed index runs with seed_base.
SimCfgSameSeed(sc, kappa, sd) == [sc EXCEPT !.kappa = kappa, !.seed = sc.seed_base]

\* sim_cfg = {**sweep_cfg, "kappa": kappa, "seed": seed_base + s}
SimCfg(sc, kappa, sd) == [sc EXCEPT !.kappa = kappa, !.seed = sc.seed_base + sd]

\* mutant of SettlingTimes: a seed that never locked counts with time 0.
RECURSIVE SettlingTimesOfAll(_)
SettlingTimesOfAll(rs) ==
    IF rs = <<>> THEN <<>>
    ELSE (IF Head(rs).settling_time = <<>> THEN <<0>> ELSE Head(rs).settling_time)
         \o SettlingTimesOfAll(Tail(rs))

\* [r["settling_time"] for r in seed_results if r["settling_time"] is not None]
RECURSIVE SettlingTimes(_)
SettlingTimes(rs) ==
    IF rs = <<>> THEN <<>>
    ELSE (IF Head(rs).settling_time = <<>> THEN <<>> ELSE Head(rs).settling_time)
         \o SettlingTimes(Tail(rs))

\* the per-kappa entry appended to sweep_results
Aggregate(kappa, rs, num_seeds) ==
    LET means == [k \in 1 .. Len(rs) |-> rs[k].mean_R_final]
        len == Len(rs)
        mean == IF len > 0 THEN SumSeq(means) \div len ELSE 0
        var == IF len > 0
               THEN SumSeq([k \in 1 .. len |-> (means[k] - mean) * (means[k] - mean)])
                        \div len
               ELSE 0
        settling_times == SettlingTimes(rs)
    IN  [kappa |-> kappa,
         mean_R |-> IF len = 0 THEN <<"nan">> ELSE <<mean>>,
         se_R |-> IF len = 0 THEN <<"nan">> ELSE <<ISqrt(var \div num_seeds)>>,
         mean_settling_time |->
             IF settling_times = <<>> THEN <<>>
             ELSE <<SumSeq(settling_times) \div Len(settling_times)>>,
         n_locked |-> Len(settling_times),
         num_seeds |-> num_seeds]

\* sweep configurations: the sweep keys on top of a short run that has an
\* event in it
SweepBase ==
    [BaseCfg EXCEPT !.N = SweepNodes, !.inject_events = <<PhaseKick(1, Node(0), 1)>>,
                     !.dt = 1]

SweepCfgs ==
    {[kappa_min |-> kmin, kappa_max |-> kmax, kappa_step |-> kstep,
      num_seeds |-> ns, seed_base |-> sb] @@ [SweepBase EXCEPT !.t_end = te] :
        kmin \in 0 .. 1, kmax \in 1 .. MaxKappa, kstep \in 1 .. 3,
        ns \in 0 .. MaxNumSeeds, sb \in 0 .. 1, te \in {1, 3}}

\* run_kappa_sweep(sc) is entered and reaches `for kappa in kappa_values`
InitSweep ==
    /\ NoRun
    /\ NoCalls
    /\ NoRequests
    /\ NoCall
    /\ \E sc \in SweepCfgs :
          /\ sweep_cfg = sc
          /\ kappa_values = KappaList(sc.kappa_min, sc.kappa_max, sc.kappa_step)
          /\ sweep_k = sc.kappa_min
                         + Len(KappaList(sc.kappa_min, sc.kappa_max, sc.kappa_step))
                           * sc.kappa_step
    /\ kappa_idx = 0
    /\ sweep_s = 0
    /\ seed_results = <<>>
    /\ sweep_results = <<>>
    /\ sweep_pc = "seeds"

\* result = run_simulation(sim_cfg): the call is entered
StartRun ==
    /\ sweep_pc = "seeds"
    /\ kappa_idx < Len(kappa_values)
    /\ sweep_s < sweep_cfg.num_seeds
    /\ Enter(SimCfg(sweep_cfg, kappa_values[kappa_idx + 1], sweep_s))
    /\ sweep_pc' = "run"
    /\ UNCHANGED <<sweep_cfg, kappa_values, kappa_idx, sweep_s, sweep_k, seed_results,
                   sweep_results, calls, returned, call, plugin_vars>>

\* the call returns; seed_results.append(result["summary"])
CollectSummary ==
    /\ sweep_pc = "run"
    /\ pc = "done"
    /\ seed_results' = Append(seed_results, summary)
    /\ returned' = Append(returned, RunResult(cfg, metrics_rows, events_log, summary))
    /\ sweep_s' = sweep_s + 1
    /\ sweep_pc' = "seeds"
    /\ pc' = "idle"
    /\ UNCHANGED <<cfg, rng, omega, omega_original, theta, memory, omega_kick_ends,
                   metrics_rows, events_log, history_R, pending_events, event_idx,
                   t, n_steps, step, summary, ref>>
    /\ UNCHANGED <<sweep_cfg, kappa_values, kappa_idx, sweep_k, sweep_results, calls, call, plugin_vars>>

\* the seed loop is exhausted: the aggregate of this kappa is appended
AppendAggregate ==
    /\ sweep_pc = "seeds"
    /\ kappa_idx < Len(kappa_values)
    /\ sweep_s >= sweep_cfg.num_seeds
    /\ sweep_results' = Append(sweep_results,
          Aggregate(kappa_values[kappa_idx + 1], seed_results, sweep_cfg.num_seeds))
    /\ kappa_idx' = kappa_idx + 1
    /\ sweep_s' = 0
    /\ seed_results' = <<>>
    /\ UNCHANGED <<run_vars, sweep_cfg, kappa_values, sweep_k, sweep_pc, calls, returned,
                   call, plugin_vars>>

\* the kappa loop is exhausted: the sweep returns
SweepReturn ==
    /\ sweep_pc = "seeds"
    /\ kappa_idx >= Len(kappa_values)
    /\ sweep_pc' = "done"
    /\ UNCHANGED <<run_vars, sweep_cfg, kappa_values, kappa_idx, sweep_s, sweep_k,
                   seed_results, sweep_results, calls, returned, call, plugin_vars>>

NextSweep ==
    \/ StartRun \/ CollectSummary \/ AppendAggregate \/ SweepReturn
    \/ ApplyEvent \/ ExpireKicks \/ Physics \/ Wrap \/ Observe \/ Finalize

SpecSweep == InitSweep /\ [][NextSweep]_vars

\* ------------------------------- run_kappa_sweep, the list loop step by step
\* kappa_step of either sign and zero
StepCfgs ==
    {[kappa_min |-> kmin, kappa_max |-> kmax, kappa_step |-> kstep,
      num_seeds |-> ns, seed_base |-> 0] @@ [SweepBase EXCEPT !.t_end = 2] :
        kmin \in 0 .. 2, kmax \in 0 .. 2, kstep \in -2 .. 2, ns \in 0 .. 1}

\* run_kappa_sweep(sc) is entered and reaches the `while` of the list loop
InitSweepList ==
    /\ NoRun
    /\ NoCalls
    /\ NoRequests
    /\ NoCall
    /\ \E sc \in StepCfgs : sweep_cfg = sc /\ sweep_k = sc.kappa_min
    /\ kappa_values = <<>>
    /\ kappa_idx = 0
    /\ sweep_s = 0
    /\ seed_results = <<>>
    /\ sweep_results = <<>>
    /\ sweep_pc = "list"

\* the test of `while k <= kappa_max + kappa_step * 0.5`
ListLoopTest == 2 * sweep_k <= 2 * sweep_cfg.kappa_max + sweep_cfg.kappa_step

\* one iteration: kappa_values.append(round(k, 8)); k += kappa_step
ListAppend ==
    /\ sweep_pc = "list"
    /\ ListLoopTest
    /\ Len(kappa_values) < MaxListLen
    /\ kappa_values' = Append(kappa_values, Round8(sweep_k))
    /\ sweep_k' = sweep_k + sweep_cfg.kappa_step
    /\ UNCHANGED <<run_vars, sweep_cfg, kappa_idx, sweep_s, seed_results, sweep_results,
                   sweep_pc, calls, returned, call, plugin_vars>>

\* the same iteration once the list is MaxListLen long: the loop goes on,
\* the list and k are no longer followed
ListAppendUnfollowed ==
    /\ sweep_pc = "list"
    /\ ListLoopTest
    /\ Len(kappa_values) >= MaxListLen
    /\ UNCHANGED <<run_vars, sweep_cfg, kappa_values, kappa_idx, sweep_s, sweep_k,
                   seed_results, sweep_results, sweep_pc, calls, returned, call, plugin_vars>>

\* the test fails: the loop is left
ListDone ==
    /\ sweep_pc = "list"
    /\ ~ListLoopTest
    /\ sweep_pc' = "seeds"
    /\ UNCHANGED <<run_vars, sweep_cfg, kappa_values, kappa_idx, sweep_s, sweep_k,
                   seed_results, sweep_results, calls, returned, call, plugin_vars>>

NextSweepList == ListAppend \/ ListAppendUnfollowed \/ ListDone \/ NextSweep

\* the sweep moves on: another pass of the list loop, or the next statement
\* of the loops over kappa_values and seeds
SweepAdvances ==
    /\ \/ sweep_pc = "list" /\ (~ListLoopTest \/ Len(kappa_values) < MaxListLen)
       \/ sweep_pc = "seeds"
       \/ sweep_pc = "run" /\ pc = "done"
    /\ sweep_pc' \in {"list", "seeds", "run", "done"}
    /\ kappa_idx' \in 0 .. MaxListLen
    /\ sweep_s' \in 0 .. sweep_cfg.num_seeds
    /\ sweep_k' \in {sweep_k, sweep_k + sweep_cfg.kappa_step}

\* the interpreter keeps running the sweep and the run inside it
SpecSweepList ==
    /\ InitSweepList
    /\ [][NextSweepList]_vars
    /\ WF_<<pc, event_idx, step>>(Advances)
    /\ WF_<<sweep_pc, kappa_idx, sweep_s, sweep_k>>(SweepAdvances)

\* ----------------------------------------------------- build_artifact_bundle
\* Strings are sequences of tokens that decode uniquely character by
\* character: single punctuation characters, single digits, a quoted string
\* as quote, content, quote, and the fixed header line of the csv.
Digit(d) == <<"0", "1", "2", "3", "4", "5", "6", "7", "8", "9">>[d + 1]

RECURSIVE Digits(_)
Digits(n) == IF n < 10 THEN <<Digit(n)>> ELSE Digits(n \div 10) \o <<Digit(n % 10)>>

\* a number as json.dumps and the csv writer print it
Num(n) == IF n < 0 THEN <<"-">> \o Digits(-n) ELSE Digits(n)

Quoted(x) == <<"\"", x, "\"">>

\* sep.join(items)
RECURSIVE Join(_, _)
Join(items, sep) ==
    IF items = <<>> THEN <<>>
    ELSE IF Len(items) = 1 THEN items[1]
    ELSE items[1] \o sep \o Join(Tail(items), sep)

\* json.dumps of a list, given the dumps of its items
JsonList(items) == <<"[">> \o Join(items, <<",", " ">>) \o <<"]">>

\* json.dumps of a dict, given its (key, dumped value) pairs in order (the
\* line breaks and indentation of indent=2, fixed by the nesting, are left out)
JsonDict(members) ==
    <<"{">>
    \o Join([k \in 1 .. Len(members) |->
                Quoted(members[k][1]) \o <<":", " ">> \o members[k][2]], <<",", " ">>)
    \o <<"}">>

JsonNode(node) == IF node.kind = "all" THEN Quoted("all") ELSE Num(node.index)

\* an inject event of the configuration, keys sorted
JsonInjectEvent(ev) ==
    JsonDict(<< <<"amplitude", Num(ev.amplitude)>>, <<"duration", Num(ev.duration)>>,
                <<"node", JsonNode(ev.node)>>, <<"time", Num(ev.time)>>,
                <<"type", Quoted(ev.type)>> >>)

JsonObservers(obs) ==
    JsonList((IF "O1" \in obs THEN <<Quoted("O1")>> ELSE <<>>)
             \o (IF "O2" \in obs THEN <<Quoted("O2")>> ELSE <<>>))

\* json.dumps(result["config"], indent=2, sort_keys=True)
JsonConfig(c) ==
    JsonDict(<< <<"N", Num(c.N)>>, <<"dt", Num(c.dt)>>, <<"eta", Num(c.eta)>>,
                <<"inject_events",
                  JsonList([k \in 1 .. Len(c.inject_events) |->
                               JsonInjectEvent(c.inject_events[k])])>>,
                <<"integrator", Quoted(c.integrator)>>, <<"kappa", Num(c.kappa)>>,
                <<"observers", JsonObservers(c.observers)>>,
                <<"offset_mode", Quoted(c.offset_mode)>>, <<"phi0", Num(c.phi0)>>,
                <<"plugin", Quoted(c.plugin)>>, <<"seed", Num(c.seed)>>,
                <<"sigma", Num(c.sigma)>>, <<"t_end", Num(c.t_end)>>,
                <<"tau_m", Num(c.tau_m)>>, <<"topology", Quoted(c.topology)>> >>)

\* the csv: nothing for an empty table, else the header and one line per row
MetricsCsv(metrics) ==
    IF metrics = <<>> THEN <<>>
    ELSE <<"t,R,psi,sigma_theta,delta_phi", "\r", "\n">>
         \o Join([k \in 1 .. Len(metrics) |->
                     Join(<<Num(metrics[k].t), Num(metrics[k].R), Num(metrics[k].psi),
                            Num(metrics[k].sigma_theta), Num(metrics[k].delta_phi)>>,
                          <<",">>)
                     \o <<"\r", "\n">>], <<>>)

\* json.dumps(ev) of a log entry, keys in insertion order
JsonLogEntry(ev) ==
    JsonDict(<< <<"t", Num(ev.t)>>, <<"type", Quoted(ev.type)>>,
                <<"nodes", JsonList([k \in 1 .. Len(ev.nodes) |-> Num(ev.nodes[k])])>>,
                <<"amplitude", Num(ev.amplitude)>> >>
             \o (IF "duration" \in DOMAIN ev
                 THEN << <<"duration", Num(ev.duration)>> >> ELSE <<>>))

\* "\n".join(json.dumps(ev) for ev in result.get("events", []))
EventsJsonl(events) ==
    Join([k \in 1 .. Len(events) |-> JsonLogEntry(events[k])], <<"\n">>)

\* hashlib.sha256 of the bytes fed to it, taken as collision-free: the
\* digest stands for exactly one input
Sha256(bytes) == [sha256 |-> bytes]

\* mutant of HashInput: the event log is left out of the hash.
HashInputWithoutEvents(config_str, metrics_str, events_str) ==
    config_str \o metrics_str

\* hasher.update(config_str); hasher.update(metrics_str); hasher.update(events_str)
HashInput(config_str, metrics_str, events_str) ==
    config_str \o metrics_str \o events_str

build_artifact_bundle(result) ==
    LET config_str  == JsonConfig(result.config)
        metrics_str == MetricsCsv(result.metrics)
        events_str  == EventsJsonl(result.events)
    IN  [config_json |-> config_str, metrics_csv |-> metrics_str,
         events_jsonl |-> events_str,
         hash_txt |-> Sha256(HashInput(config_str, metrics_str, events_str))]

\* ------------------------------------------ the module's functions, called
\* directly with arguments drawn from bounded sets
RLevels == {0, 300, 900}

\* histories of R samples: every short one, and a plateau with a final jump
\* around the default window
O2Calls ==
    {[fn |-> "observer_o2", history_R |-> h, window |-> w, pc |-> "call", ret |-> <<>>] :
        h \in UNION {[1 .. n -> RLevels] : n \in 0 .. MaxHist}, w \in 1 .. MaxWindow}
    \cup
    {[fn |-> "observer_o2",
      history_R |-> [k \in 1 .. n |-> IF k < n THEN 300 ELSE 900],
      window |-> O2Window, pc |-> "call", ret |-> <<>>] :
        n \in (O2Window - 1) .. (O2Window + 2)}

\* results handed to build_artifact_bundle two at a time: configurations
\* that differ in one value, tables and logs of different lengths, and
\* summaries that differ
BundleResults ==
    {[config |-> c, metrics |-> m, events |-> e, summary |-> sm] :
        c \in {BaseCfg, [BaseCfg EXCEPT !.kappa = 12], [BaseCfg EXCEPT !.kappa = 2, !.N = 1],
               [BaseCfg EXCEPT !.inject_events = <<PhaseKick(1, AllNodes, 1)>>]},
        m \in {<<>>,
               <<[t |-> 2, R |-> 707, psi |-> -500, sigma_theta |-> 832, delta_phi |-> 0]>>,
               <<[t |-> 2, R |-> 70, psi |-> 7, sigma_theta |-> 832, delta_phi |-> 0],
                 [t |-> 4, R |-> 1000, psi |-> 0, sigma_theta |-> 0, delta_phi |-> 414]>>},
        e \in {<<>>,
               <<[t |-> 0, type |-> "phase_kick", nodes |-> <<0, 1>>, amplitude |-> 1]>>,
               <<[t |-> 0, type |-> "omega_kick", nodes |-> <<0>>, amplitude |-> 1,
                  duration |-> 4]>>},
        sm \in {[n_steps |-> 0], [n_steps |-> 2]}}

RingCalls ==
    {[fn |-> "build_ring", N |-> n, weight |-> w, pc |-> "call", ret |-> <<>>] :
        n \in 1 .. MaxGraphN, w \in {1, 2}}

OffsetCalls ==
    {[fn |-> "build_phase_offsets_ring", N |-> n, phi0 |-> p, mode |-> m,
      pc |-> "call", ret |-> <<>>] :
        n \in 1 .. MaxGraphN, p \in -1 .. 2, m \in {"chiral", "random", "zero"}}

\* beta is held in halves: 0, 0.5 and 1.0
SmallWorldCalls ==
    {[fn |-> "build_small_world", N |-> n, k |-> kk, beta |-> b,
      A |-> [i \in Nodes(n) |-> [j \in Nodes(n) |-> 0]], i |-> 0, d |-> 1,
      pc |-> "call"] :
        n \in 1 .. MaxGraphN, kk \in 0 .. 2 * MaxHalfDegree, b \in 0 .. 2}

\* build_graph on every topology name, two unrecognised names among them
GraphCalls ==
    {[fn |-> "build_graph",
      cfg |-> [N |-> n, topology |-> tp, topo_seed |-> ts, sw_k |-> kk, sw_beta |-> b,
               er_p |-> ep, phi0 |-> 1, offset_mode |-> "chiral"],
      pc |-> "call", ret |-> <<>>] :
        n \in 1 .. MaxGraphN, tp \in Topologies \cup {"lattice", "Ring"},
        ts \in 0 .. 1, kk \in {2, 4}, b \in 0 .. 1, ep \in 0 .. 2}

DistTypes == {"lorentzian", "gaussian", "uniform", "constant"}

DistCfgs ==
    {[type |-> tp, gamma |-> gm] : tp \in {"lorentzian", "cauchy", "Gaussian"}, gm \in 1 .. 2}
    \cup {[type |-> "gaussian", mean |-> m, std |-> 1] : m \in 0 .. 1}
    \cup {[type |-> "uniform", low |-> -2, high |-> 2], [type |-> "constant"]}

FreqCalls ==
    {[fn |-> "sample_frequencies", N |-> n, dist_cfg |-> dc,
      rng |-> [seed |-> sd, pos |-> ps], pc |-> "call", ret |-> <<>>] :
        n \in 1 .. MaxGraphN, dc \in DistCfgs, sd \in 0 .. MaxSeed, ps \in {0, 3}}

BundleCalls ==
    {[fn |-> "build_artifact_bundle", results |-> <<r1, r2>>, pc |-> "call",
      bundles |-> <<>>] : r1 \in BundleResults, r2 \in BundleResults}

LibCalls == O2Calls \cup BundleCalls \cup RingCalls \cup OffsetCalls \cup SmallWorldCalls
    \cup GraphCalls \cup FreqCalls

\* observer_o2(history_R, window) is called and returns
CallObserverO2 ==
    /\ call.fn = "observer_o2"
    /\ call.pc = "call"
    /\ call' = [call EXCEPT !.pc = "return",
                            !.ret = <<observer_o2(call.history_R, call.window)>>]
    /\ UNCHANGED <<run_vars, sweep_vars, calls, returned, plugin_vars>>

\* build_artifact_bundle is called on each of the results and returns
CallBuildArtifactBundle ==
    /\ call.fn = "build_artifact_bundle"
    /\ call.pc = "call"
    /\ call' = [call EXCEPT !.pc = "return",
                            !.bundles = [i \in 1 .. Len(call.results) |->
                                            build_artifact_bundle(call.results[i])]]
    /\ UNCHANGED <<run_vars, sweep_vars, calls, returned, plugin_vars>>

\* build_ring(N, weight) is called and returns
CallBuildRing ==
    /\ call.fn = "build_ring"
    /\ call.pc = "call"
    /\ call' = [call EXCEPT !.pc = "return", !.ret = <<build_ring(call.N, call.weight)>>]
    /\ UNCHANGED <<run_vars, sweep_vars, calls, returned, plugin_vars>>

\* build_phase_offsets_ring(N, phi0, mode) is called and returns
CallBuildPhaseOffsetsRing ==
    /\ call.fn = "build_phase_offsets_ring"
    /\ call.pc = "call"
    /\ call' = [call EXCEPT !.pc = "return",
                   !.ret = <<build_phase_offsets_ring(call.N, call.phi0, call.mode)>>]
    /\ UNCHANGED <<run_vars, sweep_vars, calls, returned, plugin_vars>>

\* the position after the pass (i, d) of the rewiring loops
AfterPass(c) ==
    IF c.d < c.k \div 2 THEN [c EXCEPT !.d = c.d + 1]
    ELSE IF c.i < c.N - 1 THEN [c EXCEPT !.i = c.i + 1, !.d = 1]
    ELSE [c EXCEPT !.pc = "return"]

\* build_small_world: the lattice construction (the first pair of loops)
SmallWorldLattice ==
    /\ call.fn = "build_small_world"
    /\ call.pc = "call"
    /\ call' = [call EXCEPT !.A = Lattice(call.N, call.k),
                   !.pc = IF call.k \div 2 >= 1 THEN "rewire" ELSE "return"]
    /\ UNCHANGED <<run_vars, sweep_vars, calls, returned, plugin_vars>>

\* build_small_world: one pass of the rewiring loops that leaves A alone
\* (the draw is not below beta, or there is no candidate)
SmallWorldKeep ==
    /\ call.fn = "build_small_world"
    /\ call.pc = "rewire"
    /\ \/ FALSE \in RewireOutcomes(call.beta)
       \/ TRUE \in RewireOutcomes(call.beta) /\ Candidates(call.A, call.N, call.i) = {}
    /\ call' = AfterPass(call)
    /\ UNCHANGED <<run_vars, sweep_vars, calls, returned, plugin_vars>>

\* build_small_world: one pass of the rewiring loops that rewires the edge
\* (i, (i+d) % N) to a candidate chosen by rng.choice
SmallWorldRewire ==
    /\ call.fn = "build_small_world"
    /\ call.pc = "rewire"
    /\ TRUE \in RewireOutcomes(call.beta)
    /\ \E j_new \in Candidates(call.A, call.N, call.i) :
          call' = AfterPass([call EXCEPT !.A =
                      Rewired(call.A, call.N, call.i, (call.i + call.d) % call.N, j_new)])
    /\ UNCHANGED <<run_vars, sweep_vars, calls, returned, plugin_vars>>

\* build_graph(cfg) is called and returns
CallBuildGraph ==
    /\ call.fn = "build_graph"
    /\ call.pc = "call"
    /\ call' = [call EXCEPT !.pc = "return", !.ret = <<build_graph(call.cfg)>>]
    /\ UNCHANGED <<run_vars, sweep_vars, calls, returned, plugin_vars>>

\* sample_frequencies(N, dist_cfg, rng) is called and returns; the generator
\* has moved on by the draws taken
CallSampleFrequencies ==
    /\ call.fn = "sample_frequencies"
    /\ call.pc = "call"
    /\ call' = [call EXCEPT !.pc = "return",
                   !.ret = <<sample_frequencies(call.N, call.dist_cfg, call.rng)>>,
                   !.rng = Advance(call.rng, SampleDraws(call.N, call.dist_cfg))]
    /\ UNCHANGED <<run_vars, sweep_vars, calls, returned, plugin_vars>>

InitLib ==
    /\ NoSweep
    /\ NoCalls
    /\ NoRequests
    /\ \/ NoRun /\ \E c \in LibCalls : call = c
       \/ NoCall /\ \E c \in LongCfgs : Setup(c)

NextLib ==
    \/ ApplyEvent \/ ExpireKicks \/ Physics \/ Wrap \/ Observe \/ Finalize
    \/ CallObserverO2
    \/ CallBuildArtifactBundle
    \/ CallBuildRing
    \/ CallBuildPhaseOffsetsRing
    \/ SmallWorldLattice
    \/ SmallWorldKeep
    \/ SmallWorldRewire
    \/ CallBuildGraph
    \/ CallSampleFrequencies

SpecLib == InitLib /\ [][NextLib]_vars

\* ------------------------------------------------- a caller of run_simulation
\* A caller runs a list of configurations one after the other in one
\* process and then builds the artifact bundle of every result.
CallerCfgs ==
    {[BaseCfg EXCEPT !.plugin = p, !.sigma = sg, !.seed = sd, !.dt = 1, !.t_end = 4,
                     !.inject_events = ev] :
        p \in {"P1", "P2"}, sg \in {0, 1}, sd \in 0 .. MaxSeed, ev \in FewEventLists}

\* the same configuration first and last, any configuration in between
InitCaller ==
    /\ NoRun
    /\ NoSweep
    /\ NoCall
    /\ NoRequests
    /\ \E c \in CallerCfgs, d \in CallerCfgs : calls = <<c, d, c>>
    /\ returned = <<>>

\* run_simulation(calls[i]) is entered
StartCall ==
    /\ pc = "idle"
    /\ Len(returned) < Len(calls)
    /\ Enter(calls[Len(returned) + 1])
    /\ UNCHANGED outer

\* the call returns its result to the caller
Return ==
    /\ pc = "done"
    /\ returned' = Append(returned, RunResult(cfg, metrics_rows, events_log, summary))
    /\ pc' = "idle"
    /\ UNCHANGED <<cfg, rng, omega, omega_original, theta, memory, omega_kick_ends,
                   metrics_rows, events_log, history_R, pending_events, event_idx,
                   t, n_steps, step, summary, ref>>
    /\ UNCHANGED <<sweep_vars, calls, call, plugin_vars>>

\* every call has returned: the caller asks for the bundles
RequestBundles ==
    /\ pc = "idle"
    /\ calls # <<>>
    /\ Len(returned) = Len(calls)
    /\ call.fn = "none"
    /\ call' = [fn |-> "build_artifact_bundle", results |-> returned, pc |-> "call",
                bundles |-> <<>>]
    /\ UNCHANGED <<run_vars, sweep_vars, calls, returned, plugin_vars>>

NextCaller ==
    \/ StartCall \/ Return \/ RequestBundles \/ CallBuildArtifactBundle
    \/ ApplyEvent \/ ExpireKicks \/ Physics \/ Wrap \/ Observe \/ Finalize

SpecCaller == InitCaller /\ [][NextCaller]_vars

\* ------------------------------------------------------- the HTTP endpoints
\* POST /api/hlv/run and POST /api/hlv/sweep, each request served by its own
\* handler thread.  A handler holds _lock only inside its `with _lock:`
\* blocks; run_simulation and run_kappa_sweep are called between the blocks,
\* with the lock released.  The calls are functions of the request body
\* (RunIsFunction), so a call is one step that yields what the function
\* returns or raises.
NumHandlers == 2

\* run_kappa_sweep as a function of its configuration
run_kappa_sweep(sc) ==
    LET kv == KappaList(sc.kappa_min, sc.kappa_max, sc.kappa_step)
    IN  [sweep_config |-> sc,
         results |->
             [i \in 1 .. Len(kv) |->
                 Aggregate(kv[i],
                           [s \in 1 .. sc.num_seeds |->
                               run_simulation(SimCfg(sc, kv[i], s - 1)).summary],
                           sc.num_seeds)],
         kappa_values |-> kv]

\* run_simulation(c) raises: the configuration is rejected at set-up, or the
\* event loop reaches a kick on a node index outside -N .. N-1
Raises(c) ==
    LET f == Fresh(c)
    IN  \/ f.pc = "error"
        \/ /\ f.n_steps >= 1
           /\ \E k \in 1 .. Len(f.pending_events) :
                LET ev   == f.pending_events[k]
                    kick == NodesToKick(ev.node, c.N)
                IN  /\ ev.type \in {"phase_kick", "omega_kick"}
                    /\ EventDue(ev.time, (f.n_steps - 1) * c.dt, c.dt)
                    /\ \E j \in 1 .. Len(kick) : ~IndexOk(kick[j], c.N)

\* run_kappa_sweep(sc) never returns: the loop that builds kappa_values is
\* entered and k does not grow
NeverReturns(sc) ==
    /\ sc.kappa_step <= 0
    /\ 2 * sc.kappa_min <= 2 * sc.kappa_max + sc.kappa_step

\* request bodies of POST /run: short runs that differ in the seed, and one
\* whose event is on a node index that does not exist
RunBodies ==
    {[BaseCfg EXCEPT !.dt = 1, !.t_end = 2, !.seed = sd, !.inject_events = ev] :
        sd \in 0 .. MaxSeed,
        ev \in {<<>>, <<PhaseKick(0, Node(NumNodes), 1)>>}}

\* request bodies of POST /sweep: one kappa value and one seed, with a step
\* that ends the list loop and one that does not
SweepBodies ==
    {[kappa_min |-> 0, kappa_max |-> 0, kappa_step |-> ks, num_seeds |-> 1,
      seed_base |-> 0] @@ [SweepBase EXCEPT !.t_end = 1] : ks \in {0, 1}}

Requests ==
    {[endpoint |-> "run", data |-> d, pc |-> "request", result |-> <<>>] :
        d \in RunBodies}
    \cup {[endpoint |-> "sweep", data |-> d, pc |-> "request", result |-> <<>>] :
        d \in SweepBodies}

\* NumHandlers requests have arrived; none has entered its try block yet
InitPlugin ==
    /\ NoRun
    /\ NoSweep
    /\ NoCalls
    /\ NoCall
    /\ lock = 0
    /\ run_status = [state |-> "idle", last_run_at |-> <<>>]
    /\ latest_result = <<>>
    /\ latest_sweep = <<>>
    /\ handlers \in [1 .. NumHandlers -> Requests]
    /\ finished = <<>>

\* _time.time(): a reading of the wall clock; its value plays no part here
Now == <<"time">>

\* `with _lock:` is entered: the handler takes the lock when it is free
AcquireLock ==
    \E h \in DOMAIN handlers :
        /\ lock = 0
        /\ handlers[h].pc \in {"request", "returned", "raised"}
        /\ lock' = h
        /\ handlers' = [handlers EXCEPT ![h].pc =
                           IF @ = "request" THEN "marking"
                           ELSE IF @ = "returned" THEN "storing" ELSE "failing"]
        /\ UNCHANGED <<run_vars, sweep_vars, calls, returned, call,
                       run_status, latest_result, latest_sweep, finished>>

\* the first block: _run_status = {"state": "running" | "sweeping", ...}
MarkBusy ==
    \E h \in DOMAIN handlers :
        /\ lock = h
        /\ handlers[h].pc = "marking"
        /\ run_status' = [state |-> IF handlers[h].endpoint = "run"
                                    THEN "running" ELSE "sweeping",
                          last_run_at |-> Now]
        /\ lock' = 0
        /\ handlers' = [handlers EXCEPT ![h].pc = "call"]
        /\ UNCHANGED <<run_vars, sweep_vars, calls, returned, call,
                       latest_result, latest_sweep, finished>>

\* result = run_simulation(data, ...) or sweep = run_kappa_sweep(data): the
\* call returns
CallReturns ==
    \E h \in DOMAIN handlers :
        /\ handlers[h].pc = "call"
        /\ IF handlers[h].endpoint = "run"
           THEN /\ ~Raises(handlers[h].data)
                /\ handlers' = [handlers EXCEPT
                                   ![h].result = run_simulation(handlers[h].data),
                                   ![h].pc = "returned"]
           ELSE /\ ~NeverReturns(handlers[h].data)
                /\ handlers' = [handlers EXCEPT
                                   ![h].result = run_kappa_sweep(handlers[h].data),
                                   ![h].pc = "returned"]
        /\ UNCHANGED <<run_vars, sweep_vars, calls, returned, call,
                       lock, run_status, latest_result, latest_sweep, finished>>

\* the call raises: control passes to `except Exception as exc:`
CallRaises ==
    \E h \in DOMAIN handlers :
        /\ handlers[h].pc = "call"
        /\ handlers[h].endpoint = "run"
        /\ Raises(handlers[h].data)
        /\ handlers' = [handlers EXCEPT ![h].pc = "raised"]
        /\ UNCHANGED <<run_vars, sweep_vars, calls, returned, call,
                       lock, run_status, latest_result, latest_sweep, finished>>

\* the second block: the result is stored and the status set to idle; the
\* handler responds
StoreResult ==
    \E h \in DOMAIN handlers :
        /\ lock = h
        /\ handlers[h].pc = "storing"
        /\ IF handlers[h].endpoint = "run"
           THEN /\ latest_result' = handlers[h].result
                /\ UNCHANGED latest_sweep
           ELSE /\ latest_sweep' = handlers[h].result
                /\ UNCHANGED latest_result
        /\ run_status' = [state |-> "idle", last_run_at |-> Now]
        /\ lock' = 0
        /\ handlers' = [handlers EXCEPT ![h].pc = "responded"]
        /\ finished' = Append(finished, h)
        /\ UNCHANGED <<run_vars, sweep_vars, calls, returned, call>>

\* the block of the except clause: _run_status = {"state": "error", ...};
\* the handler responds with status 500
RecordError ==
    \E h \in DOMAIN handlers :
        /\ lock = h
        /\ handlers[h].pc = "failing"
        /\ run_status' = [state |-> "error", error |-> "exception"]
        /\ lock' = 0
        /\ handlers' = [handlers EXCEPT ![h].pc = "responded"]
        /\ finished' = Append(finished, h)
        /\ UNCHANGED <<run_vars, sweep_vars, calls, returned, call,
                       latest_result, latest_sweep>>

NextPlugin ==
    AcquireLock \/ MarkBusy \/ CallReturns \/ CallRaises \/ StoreResult \/ RecordError

SpecPlugin == InitPlugin /\ [][NextPlugin]_vars

\* =================================================================== claims
\* positions of the loop body after the perturbation phase of the step
AfterPerturbation == pc \in {"physics", "wrap", "observe"}

\* the natural frequencies sampled at setup
SetupOmega == sample_frequencies(cfg.N, DefaultFreqDist, default_rng(cfg.seed))

\* C1: each inject event is applied at most once and events are applied in
\* nondecreasing trigger-time order, whatever the order of the input list:
\* the cursor event_idx never decreases, every advance is by exactly one,
\* consumes the event under the cursor, whose trigger time is not before the
\* one consumed last, and appends that event to the log; nothing else
\* touches the log.
C1_EventsOnceInOrder ==
    [][/\ event_idx' >= event_idx
       /\ pending_events' = pending_events
       /\ event_idx' # event_idx =>
            /\ event_idx' = event_idx + 1
            /\ event_idx' <= Len(pending_events)
            /\ event_idx >= 1 =>
                 pending_events[event_idx].time <= pending_events[event_idx + 1].time
            /\ Len(events_log') = Len(events_log) + 1
            /\ SubSeq(events_log', 1, Len(events_log)) = events_log
            /\ events_log'[Len(events_log')].type = pending_events[event_idx + 1].type
            /\ events_log'[Len(events_log')].amplitude
                   = pending_events[event_idx + 1].amplitude
       /\ event_idx' = event_idx => events_log' = events_log]_vars

\* C1 witness: two events given latest-first have both been applied, at
\* different steps.
C1_Witness ==
    /\ Len(cfg.inject_events) = 2
    /\ cfg.inject_events[1].time > cfg.inject_events[2].time
    /\ event_idx = 2
    /\ Len(events_log) = 2
    /\ events_log[1].t < events_log[2].t

\* C2: after the perturbation phase of the step that starts at t, exactly
\* the events with trigger time <= t + dt/2 have been consumed, and every
\* consumed event was applied at the first step whose start time s satisfies
\* trigger time <= s + dt/2.
C2_ConsumedUpToHalfStep ==
    AfterPerturbation =>
        /\ \A i \in 1 .. Len(pending_events) :
              (i <= event_idx) <=> (2 * pending_events[i].time <= 2 * t + cfg.dt)
        /\ Len(events_log) = event_idx
        /\ \A i \in 1 .. Len(events_log) :
              LET s  == events_log[i].t
                  tm == pending_events[i].time
              IN  /\ s >= 0 /\ s % cfg.dt = 0
                  /\ 2 * tm <= 2 * s + cfg.dt
                  /\ s > 0 => 2 * tm > 2 * (s - cfg.dt) + cfg.dt

\* C2 witness: an event scheduled exactly at t + dt/2 has been consumed in
\* the step starting at t while a later event is still pending.
C2_Witness ==
    /\ pc = "physics"
    /\ event_idx >= 1
    /\ event_idx < Len(pending_events)
    /\ 2 * pending_events[event_idx].time = 2 * t + cfg.dt

\* C3: at every physics evaluation each node without a pending-expiry record
\* carries exactly the natural frequency sampled at setup, and no record
\* whose expiry time has been reached is left (so the nodes of such records
\* carry their setup frequency again).
C3_OmegaRestored ==
    pc = "physics" =>
        /\ \A ni \in Nodes(cfg.N) :
              ni \notin DOMAIN omega_kick_ends => omega[ni] = SetupOmega[ni]
        /\ \A ni \in DOMAIN omega_kick_ends : omega_kick_ends[ni] > t

\* C3 witness: node 0 has been kicked twice, its last kick has expired and
\* its record is gone, at a physics evaluation.
C3_Witness ==
    /\ pc = "physics"
    /\ Len(events_log) = 2
    /\ \A k \in 1 .. 2 : events_log[k].type = "omega_kick"
                          /\ 0 \in Range(events_log[k].nodes)
    /\ events_log[1].t < events_log[2].t
    /\ events_log[2].t + events_log[2].duration <= t
    /\ 0 \notin DOMAIN omega_kick_ends

\* an omega_kick has just been applied in the current step
KickJustApplied ==
    /\ pc = "events"
    /\ event_idx >= 1
    /\ pending_events[event_idx].type = "omega_kick"
    /\ Len(events_log) >= 1
    /\ events_log[Len(events_log)].t = t

\* C4 (as claimed): the expiry recorded for each targeted node is the
\* event's trigger time plus its duration.
C4_ExpiryIsTriggerPlusDuration ==
    KickJustApplied =>
        LET ev == pending_events[event_idx]
        IN  \A ni \in Range(NodesToKick(ev.node, cfg.N)) :
                /\ ni \in DOMAIN omega_kick_ends
                /\ omega_kick_ends[ni] = ev.time + ev.duration

\* C4 (amended): the expiry recorded for each targeted node is the start
\* time step * dt of the step that applies the event plus the duration; it
\* is trigger time + duration when the trigger time is that start time.
C4_ExpiryIsStepStartPlusDuration ==
    KickJustApplied =>
        LET ev == pending_events[event_idx]
        IN  \A ni \in Range(NodesToKick(ev.node, cfg.N)) :
                /\ ni \in DOMAIN omega_kick_ends
                /\ omega_kick_ends[ni] = step * cfg.dt + ev.duration
                /\ ev.time = step * cfg.dt =>
                       omega_kick_ends[ni] = ev.time + ev.duration

\* C4 witness: an omega_kick whose trigger time is no multiple of dt has
\* just been applied.
C4_Witness ==
    /\ KickJustApplied
    /\ pending_events[event_idx].time % cfg.dt # 0
    /\ pending_events[event_idx].duration > 0

\* the index in the log of the last omega_kick that targets node ni, 0 if none
LastKickOf(ni) ==
    LET K == {k \in 1 .. Len(events_log) :
                 events_log[k].type = "omega_kick" /\ ni \in Range(events_log[k].nodes)}
    IN  IF K = {} THEN 0 ELSE CHOOSE k \in K : \A j \in K : j <= k

\* the kick logged as e is what node ni carries
InEffect(e, ni) ==
    /\ ni \in DOMAIN omega_kick_ends
    /\ omega_kick_ends[ni] = e.t + e.duration
    /\ omega[ni] = SetupOmega[ni] + e.amplitude

\* C5 (as claimed): an omega_kick applied at the step starting at e.t with
\* duration d > 0 is in effect at the physics evaluation of exactly the
\* steps with start time t' where e.t <= t' < e.t + d.
C5_KickInEffectForItsDuration ==
    pc = "physics" =>
        \A k \in 1 .. Len(events_log) :
            LET e == events_log[k]
            IN  (e.type = "omega_kick" /\ e.duration > 0) =>
                    \A ni \in Range(e.nodes) :
                        (e.t <= t /\ t < e.t + e.duration) <=> InEffect(e, ni)

\* C5 (amended): expiry precedes the physics evaluation of the same step, so
\* the omega_kick applied last to a node (a later kick on the node replaces
\* the offset and the expiry of an earlier one) is in effect at exactly the
\* steps with e.t <= t' < e.t + d, and at no step with t' >= e.t + d.
C5_LastKickInEffectForItsDuration ==
    pc = "physics" =>
        \A ni \in Nodes(cfg.N) :
            LET k == LastKickOf(ni)
            IN  k > 0 =>
                  LET e == events_log[k]
                  IN  /\ (e.t <= t /\ t < e.t + e.duration) <=> InEffect(e, ni)
                      /\ t >= e.t + e.duration =>
                            /\ ni \notin DOMAIN omega_kick_ends
                            /\ omega[ni] = SetupOmega[ni]

\* C5 witness: the step that starts exactly at the expiry time of the last
\* kick of a node, at its physics evaluation.
C5_Witness ==
    /\ pc = "physics"
    /\ \E ni \in Nodes(cfg.N) :
          /\ LastKickOf(ni) > 0
          /\ events_log[LastKickOf(ni)].duration > 0
          /\ events_log[LastKickOf(ni)].t + events_log[LastKickOf(ni)].duration = t
          /\ ni \notin DOMAIN omega_kick_ends

\* C6 (as claimed): at the end of every step every phase lies in the
\* interval open at -pi and closed at pi.
C6_PhasesAboveMinusPi ==
    pc = "observe" => \A i \in Nodes(cfg.N) : -pi < theta[i] /\ theta[i] <= pi

\* C6 (amended): at the end of every step, for every plugin and integrator,
\* every phase lies in the closed interval from -pi to pi, and the value -pi
\* does occur (an unwrapped phase that is an odd multiple of pi wraps to -pi).
C6_PhasesInClosedInterval ==
    pc = "observe" => \A i \in Nodes(cfg.N) : -pi <= theta[i] /\ theta[i] <= pi

\* C6 witness: a step ends with a phase equal to -pi.
C6_Witness == pc = "observe" /\ \E i \in Nodes(cfg.N) : theta[i] = -pi

\* the derivative the explicit update of the plugin uses
ExplicitDerivative ==
    IF cfg.plugin = "P2"
    THEN physics_p2(theta, omega, memory, G.A, G.phi, Params(cfg), rng, cfg.N).dtheta
    ELSE IF cfg.plugin = "P3"
    THEN physics_p3(theta, omega, G.A, G.phi, Params(cfg), rng, cfg.N)
    ELSE physics_p1(theta, omega, G.A, G.phi, Params(cfg), rng, cfg.N)

\* C7: a step is the RK4 update if and only if the plugin is P1, the
\* integrator is "rk4" and sigma is 0; in every other combination it is the
\* explicit update theta + dt * dtheta of the plugin's derivative, and the
\* run goes on to the wrap (no error).
C7_Rk4OnlyForNoiselessP1 ==
    [][pc = "physics" =>
        /\ pc' = "wrap"
        /\ theta' = IF cfg.plugin = "P1" /\ cfg.integrator = "rk4" /\ cfg.sigma = 0
                    THEN rk4_step_p1(theta, omega, G.A, G.phi, Params(cfg), cfg.dt, cfg.N)
                    ELSE [i \in Nodes(cfg.N) |-> theta[i] + cfg.dt * ExplicitDerivative[i]]
      ]_vars

\* C7 witness: RK4 was requested for P1 with nonzero sigma and a step has
\* been integrated.
C7_Witness ==
    /\ pc = "wrap"
    /\ cfg.plugin = "P1" /\ cfg.integrator = "rk4" /\ cfg.sigma # 0
    /\ step >= 1

\* C8 (as claimed): a run whose plugin is none of P1, P2, P3 produces the
\* metrics rows and the event log of the same configuration with plugin P1
\* (ref is that run, taken in lockstep; the event log does not depend on the
\* plugin, so the two logs are one).
C8_UnknownPluginRunsAsP1 ==
    cfg.plugin \notin {"P1", "P2", "P3"} => metrics_rows = ref.metrics_rows

\* the integer nearest to t_end / dt, ties to the even one
IsRounded(n, t_end, dt) ==
    /\ 2 * n * dt - dt <= 2 * t_end
    /\ 2 * t_end <= 2 * n * dt + dt
    /\ (2 * t_end = 2 * n * dt - dt \/ 2 * t_end = 2 * n * dt + dt) => n % 2 = 0

\* C9 (as claimed): the run makes n = round(t_end / dt) steps, one row per
\* step, and the row of step k (k = 0 .. n-1) carries the time (k+1) * dt.
C9_RowTimesAreStepEnds ==
    pc = "done" =>
        /\ IsRounded(Len(metrics_rows), cfg.t_end, cfg.dt)
        /\ summary.n_steps = Len(metrics_rows)
        /\ \A k \in 1 .. Len(metrics_rows) : metrics_rows[k].t = k * cfg.dt

\* C9 (amended): the run makes n = round(t_end / dt) steps (ties to even),
\* one row is appended per step and summary.n_steps = n; the row of step k
\* carries (k+1) * dt rounded to 8 decimals, which is (k+1) * dt itself when
\* that is a multiple of 1e-8; row times never decrease, and they increase
\* strictly when dt >= 1e-8.
C9_RowTimesAreRoundedStepEnds ==
    /\ Len(metrics_rows) = step
    /\ step <= n_steps
    /\ IsRounded(n_steps, cfg.t_end, cfg.dt)
    /\ \A k \in 1 .. Len(metrics_rows) :
          LET rt == metrics_rows[k].t
          IN  /\ rt % Res8 = 0
              /\ 2 * Abs(rt - k * cfg.dt) <= Res8
              /\ (k * cfg.dt) % Res8 = 0 => rt = k * cfg.dt
              /\ k > 1 => metrics_rows[k - 1].t <= rt
              /\ (k > 1 /\ cfg.dt >= Res8) => metrics_rows[k - 1].t < rt
    /\ pc = "done" => /\ Len(metrics_rows) = n_steps
                      /\ summary.n_steps = n_steps

\* C9 witness: a finished run with dt below 1e-8, two of its rows carrying
\* the same time.
C9_Witness ==
    /\ pc = "done"
    /\ cfg.dt < Res8
    /\ Len(metrics_rows) >= 2
    /\ \E k \in 2 .. Len(metrics_rows) : metrics_rows[k - 1].t = metrics_rows[k].t

\* C10: every metrics row has the five fields t, R, psi, sigma_theta and
\* delta_phi; with O1 disabled R, psi and sigma_theta are 0 in every row,
\* with O2 disabled delta_phi is 0 in every row.
C10_DisabledObserversReportZero ==
    \A k \in 1 .. Len(metrics_rows) :
        LET row == metrics_rows[k]
        IN  /\ DOMAIN row = {"t", "R", "psi", "sigma_theta", "delta_phi"}
            /\ "O1" \notin cfg.observers =>
                   row.R = 0 /\ row.psi = 0 /\ row.sigma_theta = 0
            /\ "O2" \notin cfg.observers => row.delta_phi = 0

\* C10 witness: O1 is disabled and a row has been appended for phases whose
\* order parameter, angle and spread are all nonzero.
C10_Witness ==
    /\ "O1" \notin cfg.observers
    /\ pc \in {"events", "final"}
    /\ Len(metrics_rows) >= 1
    /\ observer_o1(theta, cfg.N).R # 0
    /\ observer_o1(theta, cfg.N).psi # 0
    /\ observer_o1(theta, cfg.N).sigma_theta # 0
    /\ metrics_rows[Len(metrics_rows)].R = 0

\* C11: observer_o2(history, w) returns 0 whenever the history has at most w
\* samples, and otherwise compares the last sample with the mean of exactly
\* the w samples before it; so with O2 enabled the first O2Window rows of a
\* run carry delta_phi = 0.
C11_O2ComparesLastWithPrecedingWindow ==
    /\ (call.fn = "observer_o2" /\ call.pc = "return") =>
          LET h == call.history_R
              w == call.window
              n == Len(h)
              preceding == [k \in 1 .. w |-> h[n - w - 1 + k]]
              baseline == SumSeq(preceding) \div w
          IN  /\ n <= w => call.ret = <<0>>
              /\ n > w =>
                    call.ret = <<IF baseline < 1 THEN 0
                                 ELSE (Abs(h[n] - baseline) * Milli) \div baseline>>
    /\ (pc # "idle" /\ "O2" \in cfg.observers) =>
          \A k \in 1 .. Len(metrics_rows) :
              k <= O2Window => metrics_rows[k].delta_phi = 0

\* C11 witness: a run with O2 enabled whose row O2Window + 1 is the first
\* with a nonzero delta_phi.
C11_Witness ==
    /\ pc # "idle"
    /\ "O2" \in cfg.observers
    /\ Len(metrics_rows) = O2Window + 1
    /\ metrics_rows[O2Window + 1].delta_phi # 0

\* C12: the summary's settling_time is the time of the first metrics row
\* whose R exceeds the lock-in threshold, so every earlier row has R at or
\* below it; it is None exactly when no row exceeds the threshold.
C12_SettlingTimeIsFirstLockIn ==
    pc = "done" =>
        LET st == summary.settling_time
            locked == {k \in 1 .. Len(metrics_rows) : metrics_rows[k].R > LockIn}
        IN  /\ st = <<>> <=> locked = {}
            /\ locked # {} =>
                  \E k \in locked :
                      /\ st = <<metrics_rows[k].t>>
                      /\ \A j \in 1 .. (k - 1) : metrics_rows[j].R <= LockIn

\* C12 witness: a finished run that locks in after its first row and
\* exceeds the threshold again in a later row.
C12_Witness ==
    /\ pc = "done"
    /\ \E k \in 2 .. Len(metrics_rows) :
          /\ summary.settling_time = <<metrics_rows[k].t>>
          /\ metrics_rows[1].R <= LockIn
          /\ \E j \in (k + 1) .. Len(metrics_rows) : metrics_rows[j].R > LockIn

\* the number of values kappa_min + i * kappa_step (i = 0, 1, ...) that are
\* at most kappa_max + kappa_step / 2
NumKappa(sc) ==
    Cardinality({i \in 0 .. (2 * MaxKappa + 2) :
        2 * (sc.kappa_min + i * sc.kappa_step) <= 2 * sc.kappa_max + sc.kappa_step})

\* one aggregate per examined value so far, in the order of kappa_values
ResultsFollowKappaValues ==
    /\ Len(sweep_results) = kappa_idx
    /\ kappa_idx <= Len(kappa_values)
    /\ \A i \in 1 .. Len(sweep_results) : sweep_results[i].kappa = kappa_values[i]
    /\ sweep_pc = "done" => Len(sweep_results) = Len(kappa_values)

\* C13 (as claimed): the sweep examines exactly the values
\* kappa_min + i * kappa_step that are at most kappa_max + kappa_step / 2, in
\* increasing order, and results has one aggregate per value in that order.
C13_SweepExaminesTheGrid ==
    /\ kappa_values = [i \in 1 .. NumKappa(sweep_cfg) |->
                          sweep_cfg.kappa_min + (i - 1) * sweep_cfg.kappa_step]
    /\ ResultsFollowKappaValues

\* C13 (amended): the sweep examines the values kappa_min + i * kappa_step
\* that are at most kappa_max + kappa_step / 2, each rounded to 8 decimals,
\* in nondecreasing order (increasing when kappa_step > 1e-8); kappa_max,
\* rounded, is the last value when kappa_max - kappa_min is a whole number
\* of steps; results has one aggregate per value in that order.
C13_SweepExaminesTheRoundedGrid ==
    /\ kappa_values = [i \in 1 .. NumKappa(sweep_cfg) |->
                          Round8(sweep_cfg.kappa_min + (i - 1) * sweep_cfg.kappa_step)]
    /\ \A i \in 2 .. Len(kappa_values) :
          /\ kappa_values[i - 1] <= kappa_values[i]
          /\ sweep_cfg.kappa_step > Res8 => kappa_values[i - 1] < kappa_values[i]
    /\ ( /\ sweep_cfg.kappa_max >= sweep_cfg.kappa_min
         /\ (sweep_cfg.kappa_max - sweep_cfg.kappa_min) % sweep_cfg.kappa_step = 0 )
       => kappa_values[Len(kappa_values)] = Round8(sweep_cfg.kappa_max)
    /\ ResultsFollowKappaValues

\* C13 witness: a finished sweep whose kappa_min is no multiple of 1e-8, so
\* that the first value examined is not kappa_min, with kappa_max a whole
\* number of steps away and more than one aggregate.
C13_Witness ==
    /\ sweep_pc = "done"
    /\ Len(sweep_results) >= 2
    /\ sweep_results[1].kappa # sweep_cfg.kappa_min
    /\ (sweep_cfg.kappa_max - sweep_cfg.kappa_min) % sweep_cfg.kappa_step = 0
    /\ sweep_cfg.num_seeds > 0

\* the pair (kappa, seed index) of the i-th run of the sweep, as the
\* configuration a standalone call would be given
PairCfg(i) ==
    LET ns == sweep_cfg.num_seeds
    IN  [sweep_cfg EXCEPT !.kappa = kappa_values[((i - 1) \div ns) + 1],
                          !.seed = sweep_cfg.seed_base + ((i - 1) % ns)]

\* C14: the sweep makes exactly one run per pair (kappa value, seed index s)
\* with seed = seed_base + s, and the summary it collects for a pair is the
\* summary of a standalone run_simulation call on that configuration,
\* whatever was run before it.
C14_SweepRunsAreStandaloneRuns ==
    /\ Len(returned) = kappa_idx * sweep_cfg.num_seeds + Len(seed_results)
    /\ Len(seed_results) = (IF sweep_pc = "run" THEN sweep_s ELSE
                              IF kappa_idx < Len(kappa_values) THEN sweep_s ELSE 0)
    /\ Len(seed_results) <= sweep_cfg.num_seeds
    /\ \A i \in 1 .. Len(returned) :
          /\ returned[i].config = PairCfg(i)
          /\ returned[i].summary = run_simulation(PairCfg(i)).summary
    /\ \A j \in 1 .. Len(seed_results) :
          seed_results[j] =
              returned[kappa_idx * sweep_cfg.num_seeds + j].summary
    /\ sweep_pc = "done" =>
          Len(returned) = Len(kappa_values) * sweep_cfg.num_seeds

\* C14 witness: a finished sweep over two kappa values and two seeds whose
\* four summaries are pairwise different in their statistics.
C14_Witness ==
    /\ sweep_pc = "done"
    /\ Len(returned) >= 4
    /\ sweep_cfg.num_seeds = 2
    /\ returned[1].summary.mean_R_final # returned[2].summary.mean_R_final
    /\ returned[1].summary.mean_R_final # returned[3].summary.mean_R_final

\* the summaries of the seed runs behind the i-th aggregate
SeedRunsOf(i) ==
    [j \in 1 .. sweep_cfg.num_seeds |->
        returned[(i - 1) * sweep_cfg.num_seeds + j].summary]

\* C15: in every per-kappa aggregate n_locked is the number of that kappa's
\* seed runs whose settling_time is not None, it lies in 0 .. num_seeds,
\* mean_settling_time is the mean over those locked runs only, and it is
\* None exactly when n_locked = 0.
C15_LockedSeedsAggregate ==
    \A i \in 1 .. Len(sweep_results) :
        LET agg == sweep_results[i]
            runs == SeedRunsOf(i)
            locked == {j \in 1 .. Len(runs) : runs[j].settling_time # <<>>}
            total == SumOver([j \in locked |-> runs[j].settling_time[1]], locked)
        IN  /\ agg.n_locked = Cardinality(locked)
            /\ 0 <= agg.n_locked /\ agg.n_locked <= agg.num_seeds
            /\ agg.num_seeds = sweep_cfg.num_seeds
            /\ agg.mean_settling_time = <<>> <=> agg.n_locked = 0
            /\ agg.n_locked > 0 =>
                  agg.mean_settling_time = <<total \div agg.n_locked>>

\* C15 witness: an aggregate over two seeds of which exactly one locked in.
C15_Witness ==
    \E i \in 1 .. Len(sweep_results) :
        /\ sweep_results[i].num_seeds = 2
        /\ sweep_results[i].n_locked = 1
        /\ sweep_results[i].mean_settling_time # <<>>
        /\ sweep_results[i].mean_settling_time # <<0>>

\* C17: hash.txt is computed from config.json, metrics.csv and events.jsonl
\* in that order and from nothing else: results whose configurations differ
\* get different hashes, results with equal configuration, metrics and
\* events get the same hash.
C17_HashCoversConfigMetricsEvents ==
    (call.fn = "build_artifact_bundle" /\ call.pc = "return") =>
        /\ \A i \in 1 .. Len(call.bundles) :
              LET b == call.bundles[i]
              IN  b.hash_txt = Sha256(b.config_json \o b.metrics_csv \o b.events_jsonl)
        /\ \A i, j \in 1 .. Len(call.bundles) :
              /\ call.results[i].config # call.results[j].config
                    => call.bundles[i].hash_txt # call.bundles[j].hash_txt
              /\ ( /\ call.results[i].config = call.results[j].config
                   /\ call.results[i].metrics = call.results[j].metrics
                   /\ call.results[i].events = call.results[j].events )
                    => call.bundles[i].hash_txt = call.bundles[j].hash_txt

\* C17 witness: the bundles of two results that differ in kappa only, and
\* whose hashes differ.
C17_Witness ==
    /\ call.fn = "build_artifact_bundle"
    /\ call.pc = "return"
    /\ Len(call.results) = 2
    /\ call.results[1].config.kappa # call.results[2].config.kappa
    /\ call.results[1].config = [call.results[2].config EXCEPT
                                     !.kappa = call.results[1].config.kappa]
    /\ call.results[1].metrics = call.results[2].metrics
    /\ call.results[1].events = call.results[2].events
    /\ call.results[1].events # <<>>
    /\ call.bundles[1].hash_txt # call.bundles[2].hash_txt

\* the locals of run_simulation(c) at the head of step k
RECURSIVE StateAfter(_, _)
StateAfter(c, k) == IF k = 0 THEN Fresh(c) ELSE LoopBody(StateAfter(c, k - 1))

\* the locals that carry the state of a run
Locals ==
    [theta |-> theta, omega |-> omega, memory |-> memory, rng |-> rng,
     omega_kick_ends |-> omega_kick_ends, metrics_rows |-> metrics_rows,
     events_log |-> events_log, history_R |-> history_R]

LocalsOf(st) ==
    [theta |-> st.theta, omega |-> st.omega, memory |-> st.memory, rng |-> st.rng,
     omega_kick_ends |-> st.omega_kick_ends, metrics_rows |-> st.metrics_rows,
     events_log |-> st.events_log, history_R |-> st.history_R]

\* C16: two run_simulation calls with identical configuration go through
\* identical states (at the head of step k the locals are a function of the
\* configuration and k alone), return identical metrics rows, event logs and
\* summaries, and get the same hash.txt, whatever was run in between.
C16_SameConfigSameRun ==
    /\ (pc \in {"events", "final", "done"}
          /\ event_idx = StateAfter(cfg, step).event_idx)
        => Locals = LocalsOf(StateAfter(cfg, step))
    /\ \A i, j \in 1 .. Len(returned) :
          returned[i].config = returned[j].config => returned[i] = returned[j]
    /\ (call.fn = "build_artifact_bundle" /\ call.pc = "return") =>
          \A i, j \in 1 .. Len(call.bundles) :
              call.results[i].config = call.results[j].config
                  => call.bundles[i].hash_txt = call.bundles[j].hash_txt

\* C16 witness: the first and the third call had the same configuration, a
\* noisy run with events, the call between them a different one with a
\* different result, and the bundles are built.
C16_Witness ==
    /\ call.fn = "build_artifact_bundle"
    /\ call.pc = "return"
    /\ Len(returned) = 3
    /\ returned[1].config = returned[3].config
    /\ returned[1].config.sigma # 0
    /\ returned[1].events # <<>>
    /\ returned[2].config # returned[1].config
    /\ returned[2].metrics # returned[1].metrics
    /\ call.bundles[1].hash_txt = call.bundles[3].hash_txt
    /\ call.bundles[1].hash_txt # call.bundles[2].hash_txt

Symmetric(A, N) == \A i, j \in Nodes(N) : A[i][j] = A[j][i]

ZeroDiagonal(A, N) == \A i \in Nodes(N) : A[i][i] = 0

RowSum(A, i, N) == SumOver(A[i], Nodes(N))

RingReturned == call.fn = "build_ring" /\ call.pc = "return"

\* C18 (as claimed): for every N >= 1 the matrix of build_ring(N) is
\* symmetric, has a zero diagonal, and every row sums to 2.
C18_RingRowsSumToTwo ==
    (RingReturned /\ call.weight = 1) =>
        LET A == call.ret[1]
        IN  /\ Symmetric(A, call.N)
            /\ ZeroDiagonal(A, call.N)
            /\ \A i \in Nodes(call.N) : RowSum(A, i, call.N) = 2

\* C18 (amended): the matrix of build_ring(N, weight) is symmetric for every
\* N >= 1; for N >= 3 the diagonal is zero and every row holds weight at its
\* two distinct neighbours (row sum 2 * weight); for N = 2 the two
\* neighbours are one node, the diagonal is zero and every row sums to
\* weight; for N = 1 the only entry, on the diagonal, is weight.
C18_RingRowsByNumberOfNodes ==
    RingReturned =>
        LET A == call.ret[1]
            N == call.N
            w == call.weight
        IN  /\ Symmetric(A, N)
            /\ N >= 3 => /\ ZeroDiagonal(A, N)
                         /\ \A i \in Nodes(N) :
                               /\ RowSum(A, i, N) = 2 * w
                               /\ Cardinality({j \in Nodes(N) : A[i][j] = w}) = 2
            /\ N = 2 => /\ ZeroDiagonal(A, N)
                        /\ \A i \in Nodes(N) : RowSum(A, i, N) = w
            /\ N = 1 => A[0][0] = w

\* C18 witness: build_ring(2) has returned, with rows that sum to 1.
C18_Witness ==
    /\ RingReturned
    /\ call.N = 2
    /\ call.weight = 1
    /\ RowSum(call.ret[1], 0, 2) = 1

OffsetsReturned ==
    call.fn = "build_phase_offsets_ring" /\ call.pc = "return" /\ call.mode = "chiral"

\* C19 (as claimed): for every N >= 1 and phi0 the chiral matrix has
\* phi[i, (i+1) % N] = +phi0 and phi[i, (i-1) % N] = -phi0 for all i, is
\* antisymmetric, and is zero off the ring edges.
C19_ChiralOffsetsAntisymmetric ==
    OffsetsReturned =>
        LET phi == call.ret[1]
            N == call.N
        IN  \A i, j \in Nodes(N) :
              /\ j = (i + 1) % N => phi[i][j] = call.phi0
              /\ j = (i - 1) % N => phi[i][j] = -call.phi0
              /\ phi[i][j] = -phi[j][i]
              /\ (j # (i + 1) % N /\ j # (i - 1) % N) => phi[i][j] = 0

\* C19 (amended): the chiral matrix is zero off the ring edges and has
\* phi[i, (i-1) % N] = -phi0 for all i, for every N >= 1; for N >= 3 it also
\* has phi[i, (i+1) % N] = +phi0 and is antisymmetric; for N = 2 and N = 1
\* the forward and the backward neighbour are the same entry, which holds
\* -phi0 (for N = 2 the matrix is then symmetric, not antisymmetric).
C19_ChiralOffsetsByNumberOfNodes ==
    OffsetsReturned =>
        LET phi == call.ret[1]
            N == call.N
        IN  \A i, j \in Nodes(N) :
              /\ j = (i - 1) % N => phi[i][j] = -call.phi0
              /\ (j # (i + 1) % N /\ j # (i - 1) % N) => phi[i][j] = 0
              /\ N >= 3 => /\ j = (i + 1) % N => phi[i][j] = call.phi0
                           /\ phi[i][j] = -phi[j][i]
              /\ (N <= 2 /\ j = (i + 1) % N) => phi[i][j] = -call.phi0
              /\ N = 2 => phi[i][j] = phi[j][i]

\* C19 witness: the chiral matrix for N = 2 and a nonzero phi0 has been
\* built, with -phi0 in both directions of its one edge.
C19_Witness ==
    /\ OffsetsReturned
    /\ call.N = 2
    /\ call.phi0 # 0
    /\ call.ret[1][0][1] = -call.phi0
    /\ call.ret[1][1][0] = -call.phi0

SimpleGraph(A, N) ==
    /\ Symmetric(A, N)
    /\ ZeroDiagonal(A, N)
    /\ \A i, j \in Nodes(N) : A[i][j] \in {0, 1}

SmallWorldBuilt == call.fn = "build_small_world" /\ call.pc \in {"rewire", "return"}

\* C20 (as claimed): for every N, every even k, every beta and every
\* sequence of random draws, the matrix of build_small_world is symmetric,
\* has entries in {0, 1} and a zero diagonal after the lattice construction
\* and after every rewiring.
C20_SmallWorldStaysSimple ==
    (SmallWorldBuilt /\ call.k % 2 = 0) => SimpleGraph(call.A, call.N)

\* build_small_world keeps the matrix symmetric with entries in {0, 1} for
\* every N and k, and keeps the diagonal zero when k // 2 < N.
SmallWorldSimpleBelowN ==
    SmallWorldBuilt =>
        /\ Symmetric(call.A, call.N)
        /\ \A i, j \in Nodes(call.N) : call.A[i][j] \in {0, 1}
        /\ call.k \div 2 < call.N => ZeroDiagonal(call.A, call.N)

\* C21: build_graph with an unrecognised topology name returns, without an
\* error, the ring adjacency for that N, and sample_frequencies with an
\* unrecognised distribution type returns the samples the default Lorentzian
\* distribution (scale 0.5) gives from the same generator.
C21_UnknownNamesFallBack ==
    /\ (call.fn = "build_graph" /\ call.pc = "return"
            /\ call.cfg.topology \notin Topologies)
        => /\ DOMAIN call.ret[1] = {"A", "phi"}
           /\ call.ret[1].A = build_ring(call.cfg.N, 1)
    /\ (call.fn = "sample_frequencies" /\ call.pc = "return"
            /\ call.dist_cfg.type \notin DistTypes)
        => call.ret[1] = [i \in Nodes(call.N) |->
                             CauchyDraw([seed |-> call.rng.seed, pos |-> call.rng.pos - call.N], i)]

\* C21 witness: build_graph has returned for an unrecognised topology name
\* with N where the ring, unlike the fully connected graph, has no edge
\* between the nodes 0 and 2.
C21_Witness ==
    /\ call.fn = "build_graph"
    /\ call.pc = "return"
    /\ call.cfg.topology = "lattice"
    /\ call.cfg.N = 4
    /\ call.ret[1].A = build_ring(4, 1)
    /\ call.ret[1].A[0][2] = 0

Malformed(c) == c.N <= 0 \/ c.dt < 0

\* C22 (as claimed): a run with a non-positive N or a negative dt ends in an
\* error raised before the first integration step: it executes no step and
\* returns no result.
C22_MalformedConfigIsRejected ==
    Malformed(cfg) =>
        /\ pc \notin {"physics", "wrap", "observe", "done"}
        /\ step = 0
        /\ metrics_rows = <<>>

\* the events the loop has consumed so far
Consumed == SubSeq(pending_events, 1, event_idx)

\* C23 (as claimed): a kick whose target index lies outside 0 .. N-1 makes
\* the run fault where it is first applied: it is never consumed, and the
\* run that holds it as a due event returns no result.
C23_OutOfRangeIndexFaults ==
    \A k \in 1 .. Len(pending_events) :
        LET ev == pending_events[k]
        IN  ( /\ ev.type \in {"phase_kick", "omega_kick"}
              /\ ev.node.kind = "index"
              /\ ev.node.index \notin Nodes(cfg.N) )
            => /\ k > event_idx
               /\ (pc = "done" => ~EventDue(ev.time, (n_steps - 1) * cfg.dt, cfg.dt))

\* a kick on an index outside -N .. N-1 is never consumed: the run stops at
\* it with IndexError or ends before it is due.
IndexBelowMinusNFaults ==
    \A k \in 1 .. Len(pending_events) :
        LET ev == pending_events[k]
        IN  ( /\ ev.type \in {"phase_kick", "omega_kick"}
              /\ ev.node.kind = "index"
              /\ ~IndexOk(ev.node.index, cfg.N) )
            => k > event_idx

\* the nodes an event names: one node, or all N for 'all'
Targets(ev, N) == IF ev.node.kind = "all" THEN Nodes(N) ELSE {ev.node.index}

\* C24: applying a phase_kick adds the amplitude to the phase of exactly the
\* targeted nodes, before the physics evaluation of that step, and leaves
\* the other phases, the natural frequencies, the expiry records and the
\* memory vector unchanged.
C24_PhaseKickFrame ==
    [][ ( /\ pc = "events"
          /\ event_idx' = event_idx + 1
          /\ pending_events[event_idx + 1].type = "phase_kick" )
        => LET ev == pending_events[event_idx + 1]
           IN  /\ \A i \in Nodes(cfg.N) :
                     theta'[i] = theta[i] + (IF i \in Targets(ev, cfg.N)
                                             THEN ev.amplitude ELSE 0)
               /\ omega' = omega
               /\ omega_original' = omega_original
               /\ omega_kick_ends' = omega_kick_ends
               /\ memory' = memory
               /\ pc' = "events"
               /\ step' = step
               /\ metrics_rows' = metrics_rows ]_vars

\* C24 witness: a phase_kick on all nodes has just been applied in a P2 run
\* past its first step, with an omega kick still pending on node 0.
C24_Witness ==
    /\ pc = "events"
    /\ cfg.plugin = "P2"
    /\ step >= 1
    /\ event_idx >= 1
    /\ pending_events[event_idx].type = "phase_kick"
    /\ pending_events[event_idx].node = AllNodes
    /\ events_log # <<>>
    /\ events_log[Len(events_log)].type = "phase_kick"
    /\ events_log[Len(events_log)].t = t
    /\ DOMAIN omega_kick_ends = {0}
    /\ omega # omega_original

IsKick(ev) == ev.type \in {"phase_kick", "omega_kick"}

ConsumedKicks == SelectSeq(Consumed, IsKick)

LogTimesNondecreasing ==
    \A k \in 2 .. Len(events_log) : events_log[k - 1].t <= events_log[k].t

\* C25 (as claimed): every consumed event appends exactly one entry to the
\* event log, so the log is as long as the number of consumed events, is in
\* consumption order and has nondecreasing entry times.
C25_OneLogEntryPerConsumedEvent ==
    /\ Len(events_log) = event_idx
    /\ \A k \in 1 .. Len(events_log) :
          /\ k <= event_idx
          /\ events_log[k].type = pending_events[k].type
    /\ LogTimesNondecreasing

\* C25 (amended): every consumed phase_kick or omega_kick appends exactly
\* one entry, which lists all the affected nodes (all N of them for 'all');
\* a consumed event of any other type appends nothing.  The log is as long
\* as the number of consumed kicks, is in their consumption order, and its
\* entry times are nondecreasing.
C25_OneLogEntryPerConsumedKick ==
    /\ Len(events_log) = Len(ConsumedKicks)
    /\ \A k \in 1 .. Len(events_log) :
          LET ev == ConsumedKicks[k]
          IN  /\ events_log[k].type = ev.type
              /\ events_log[k].amplitude = ev.amplitude
              /\ events_log[k].nodes =
                     IF ev.node.kind = "all" THEN [i \in 1 .. cfg.N |-> i - 1]
                     ELSE <<ev.node.index>>
              /\ EventDue(ev.time, events_log[k].t, cfg.dt)
    /\ LogTimesNondecreasing

\* C25 witness: a finished run that consumed an event of an unknown type
\* and an 'all'-node kick, whose log holds the one entry of the kick.
C25_Witness ==
    /\ pc = "done"
    /\ event_idx = 2
    /\ pending_events[1].type = "noise"
    /\ pending_events[2].node = AllNodes
    /\ Len(events_log) = 1
    /\ events_log[1].nodes = [i \in 1 .. cfg.N |-> i - 1]
    /\ events_log[1].t > 0

\* the k-th event of the queue has a trigger time of at most
\* (n_steps - 1) * dt + dt / 2
Reachable(k) ==
    /\ k <= Len(pending_events)
    /\ 2 * pending_events[k].time <= 2 * (n_steps - 1) * cfg.dt + cfg.dt

TooLate(k) ==
    /\ k <= Len(pending_events)
    /\ 2 * pending_events[k].time > 2 * (n_steps - 1) * cfg.dt + cfg.dt

C27_SweepTerminates ==
    /\ <>(sweep_pc # "list")
    /\ <>(sweep_pc = "done")

\* with kappa_step > 0 the list loop finishes and the sweep returns
SweepTerminatesForPositiveStep ==
    (sweep_cfg.kappa_step > 0) => <>(sweep_pc = "done")

\* with kappa_step <= 0 the list loop is left at once or never
ListLoopNeverLeftLate ==
    [][(sweep_cfg.kappa_step <= 0 /\ sweep_pc = "list" /\ sweep_pc' # "list")
          => kappa_values = <<>>]_vars

\* the positions of the log entries of the omega kicks that named node i
OmegaKicksOn(i) ==
    {k \in 1 .. Len(events_log) :
        /\ events_log[k].type = "omega_kick"
        /\ i \in Range(events_log[k].nodes)}

LastOmegaKickOn(i) ==
    events_log[CHOOSE k \in OmegaKicksOn(i) : \A m \in OmegaKicksOn(i) : m <= k]

\* C28: a node has at most one expiry record; while it is pending the
\* frequency of the node is the setup value plus the amplitude of the last
\* omega_kick applied to it (not the sum of the amplitudes), the record is
\* the expiry of that last kick, and the expiry time of an earlier kick has
\* no effect; a node without a record runs at its setup frequency.
C28_SecondOmegaKickReplacesFirst ==
    \A i \in Nodes(cfg.N) :
        IF i \in DOMAIN omega_kick_ends
        THEN /\ OmegaKicksOn(i) # {}
             /\ omega[i] = omega_original[i] + LastOmegaKickOn(i).amplitude
             /\ omega_kick_ends[i] = LastOmegaKickOn(i).t + LastOmegaKickOn(i).duration
             /\ pc \in {"physics", "wrap", "observe"} => omega_kick_ends[i] > t
        ELSE omega[i] = omega_original[i]

\* C28 witness: node 0 was kicked twice with different amplitudes, the
\* expiry time of the first kick has passed, the expiry check of this step
\* has run, and the node still runs at setup value plus second amplitude.
C28_Witness ==
    /\ pc = "physics"
    /\ Cardinality(OmegaKicksOn(0)) = 2
    /\ LET first == events_log[CHOOSE k \in OmegaKicksOn(0) : \A m \in OmegaKicksOn(0) : k <= m]
       IN  /\ first.t + first.duration <= t
           /\ first.amplitude # LastOmegaKickOn(0).amplitude
    /\ 0 \in DOMAIN omega_kick_ends
    /\ omega[0] = omega_original[0] + LastOmegaKickOn(0).amplitude

\* the queue without its k-th event
WithoutEvent(k) ==
    [cfg EXCEPT !.inject_events =
        SubSeq(pending_events, 1, k - 1) \o SubSeq(pending_events, k + 1, Len(pending_events))]

\* the k-th event of the queue is an omega kick of duration zero or below
\* that the run has applied
ZeroDurationApplied(k) ==
    /\ k <= event_idx
    /\ \A m \in 1 .. event_idx : IsKick(pending_events[m])
    /\ pending_events[k].type = "omega_kick"
    /\ pending_events[k].duration <= 0

\* a finished run with such an event has the event in its log and the
\* metrics of the run without the event
SameMetricsWithout(k) ==
    LET other == run_simulation(WithoutEvent(k))
    IN  /\ Len(events_log) = Len(other.events) + 1
        /\ events_log[k].type = "omega_kick"
        /\ events_log[k].duration = pending_events[k].duration
        /\ metrics_rows = other.metrics

\* no earlier omega kick was pending on a node of the k-th log entry when it
\* was applied
NothingPendingAt(k) ==
    \A m \in 1 .. k - 1 :
        ~ /\ events_log[m].type = "omega_kick"
          /\ Range(events_log[m].nodes) \cap Range(events_log[k].nodes) # {}
          /\ events_log[m].t + events_log[m].duration > events_log[k].t

\* C29 (as claimed): an omega_kick of duration <= 0 is logged but reverted
\* by the expiry check of the step that applied it; no physics evaluation
\* sees a changed frequency and the metrics of the run equal those of the
\* same run without the event.
C29_ZeroDurationKickHasNoEffect ==
    \A k \in 1 .. MaxEvents :
        (pc = "done" /\ ZeroDurationApplied(k)) => SameMetricsWithout(k)

\* C29 (amended): an omega_kick of duration <= 0 is logged and its expiry
\* record is dropped by the expiry check of the step that applied it, so no
\* physics evaluation sees the frequency setup + amplitude: every targeted
\* node runs at its setup frequency from that step on, also a node on which
\* an earlier omega kick was still pending, whose kick ends there.  When no
\* earlier omega kick is pending on a targeted node, the metrics of the run
\* equal those of the same run without the event.
C29_ZeroDurationKickCancelsPendingKick ==
    /\ \A k \in 1 .. MaxEvents :
          (pc = "done" /\ ZeroDurationApplied(k) /\ NothingPendingAt(k))
              => SameMetricsWithout(k)
    /\ \A i \in Nodes(cfg.N) :
          ( /\ pc \in {"physics", "wrap", "observe"}
            /\ OmegaKicksOn(i) # {}
            /\ LastOmegaKickOn(i).duration <= 0 )
          => (omega[i] = omega_original[i] /\ i \notin DOMAIN omega_kick_ends)

\* C29 witness: a finished run in which an omega kick of duration <= 0 on a
\* node with a pending kick was applied and logged, and whose metrics differ
\* from those of the run without it.
C29_Witness ==
    /\ pc = "done"
    /\ ZeroDurationApplied(2)
    /\ ~NothingPendingAt(2)
    /\ Len(events_log) = 2
    /\ metrics_rows # run_simulation(WithoutEvent(2)).metrics

\* ---------------------------------------------------------------------- C30
\* a handler whose run_simulation or run_kappa_sweep call is in progress
InProgress(h) == handlers[h].pc = "call"

SomeCallInProgress == \E h \in DOMAIN handlers : InProgress(h)

\* the handler that responded last
LastFinished == finished[Len(finished)]

\* C30: with several POST /run and POST /sweep requests handled
\* concurrently, _run_status.state is "running" or "sweeping" whenever at
\* least one run_simulation or run_kappa_sweep call is still in progress, it
\* is "idle" only when none is, and _latest_result holds the result of the
\* request that finished last.
C30_SharedStateConsistent ==
    /\ SomeCallInProgress => run_status.state \in {"running", "sweeping"}
    /\ run_status.state = "idle" => ~SomeCallInProgress
    /\ finished # <<>> => latest_result = handlers[LastFinished].result

\* the part of C30 about the status alone, for requests that all succeed:
\* it fails as soon as one of two overlapping calls returns
StatusBusyWhileCallInProgress ==
    (/\ \A h \in DOMAIN handlers :
            /\ handlers[h].endpoint = "run"
            /\ ~Raises(handlers[h].data)
     /\ SomeCallInProgress)
        => run_status.state = "running"

\* what the lock does give: the two assignments of a block are never seen
\* apart, so the status is idle when a result has just been stored, and
\* _latest_result is the result of the POST /run handler that stored last
StoredRuns == SelectSeq(finished, LAMBDA h : handlers[h].endpoint = "run"
                                             /\ handlers[h].result # <<>>)

LatestResultIsLastStoredRun ==
    /\ lock = 0 /\ StoredRuns # <<>>
           => latest_result = handlers[StoredRuns[Len(StoredRuns)]].result
    /\ StoredRuns = <<>> => latest_result = <<>>

\* one call has returned and its result is stored while the other handler's
\* call is still in progress
OneStoredOtherInProgress ==
    /\ finished # <<>>
    /\ handlers[LastFinished].endpoint = "run"
    /\ handlers[LastFinished].result # <<>>
    /\ \A h \in DOMAIN handlers : handlers[h].endpoint = "run"
    /\ SomeCallInProgress

====
